---- MODULE Spec2Model ----
(***************************************************************************)
(* Game state engine (GST), MCTS and ISMCTS of the 6x6 hidden-type board   *)
(* game.  The game state is a record with the fields of class GST; the     *)
(* engine operations are operators on that record, translated from         *)
(* 4T_GST_impl.cpp, and the actions apply them to the caller's state.      *)
(***************************************************************************)
EXTENDS Integers, Sequences, FiniteSets, TLC

(***************************************************************************)
(* Program constants (4T_header.h)                                         *)
(***************************************************************************)
ROW == 6
COL == 6
PIECES == 8
MAX_PLIES == 1000
RED == 1
BLUE == 2
UNKNOWN == 3
USER == 0
ENEMY == 1
\* the 200-ply draw rule hard-coded in GST::is_over
PLY_CAP == 200
\* winner field: no winner yet / draw sentinel
NO_WINNER == -1
DRAW == -2

Cells == 0 .. (ROW * COL - 1)
PieceIds == 0 .. (PIECES * 2 - 1)

Abs(x) == IF x < 0 THEN -x ELSE x

\* nowTurn ^= 1
Toggle(t) == IF t = 0 THEN 1 ELSE 0

\* Initial board positions [player][piece index]
init_pos == << <<25, 26, 27, 28, 31, 32, 33, 34>>, <<10, 9, 8, 7, 4, 3, 2, 1>> >>

\* Direction offsets {N, W, E, S}
dir_val == [d \in 0 .. 3 |-> CASE d = 0 -> -COL [] d = 1 -> -1 [] d = 2 -> 1 [] d = 3 -> COL]

\* move encoding: piece << 4 | direction
MoveOf(piece, dir) == piece * 16 + dir
PieceOf(move) == move \div 16
DirOf(move) == move % 16

(***************************************************************************)
(* GST::init_board: every field reset, four RED pieces per side (the sets  *)
(* ured and ered stand for the outcome of the rejection sampling).         *)
(***************************************************************************)
init_board(ured, ered) ==
  LET col == [p \in PieceIds |->
                IF p < PIECES
                  THEN (IF p \in ured THEN RED ELSE BLUE)
                  ELSE (IF p \in ered THEN -RED ELSE -BLUE)]
      start == [p \in PieceIds |->
                IF p < PIECES THEN init_pos[1][p + 1] ELSE init_pos[2][p - PIECES + 1]]
      at(c) == {p \in PieceIds : start[p] = c}
  IN [board |-> [c \in Cells |-> IF at(c) = {} THEN 0 ELSE col[CHOOSE p \in at(c) : TRUE]],
      piece_board |-> [c \in Cells |-> IF at(c) = {} THEN -1 ELSE CHOOSE p \in at(c) : TRUE],
      pos |-> start,
      color |-> col,
      piece_nums |-> [k \in 0 .. 3 |-> 4],
      revealed |-> [p \in PieceIds |-> FALSE],
      nowTurn |-> USER,
      winner |-> NO_WINNER,
      is_escape |-> FALSE,
      n_plies |-> 0,
      history |-> << >>,
      fatal |-> ""]

(***************************************************************************)
(* GST::gen_move / GST::gen_all_move.  The moves are kept in the order the *)
(* code appends them: Up, Down, Left, Right, then the escape moves.        *)
(***************************************************************************)
SeqIf(cond, m) == IF cond THEN <<m>> ELSE << >>

\* gen_move with the Left test on the cell index instead of the column
gen_move_normal_wrap(g, piece, location) ==
  LET row == location \div ROW
      col == location % COL
      free(c) == IF g.nowTurn = USER THEN g.board[c] <= 0 ELSE g.board[c] >= 0
  IN SeqIf(row # 0 /\ free(location - 6), MoveOf(piece, 0))
     \o SeqIf(row # ROW - 1 /\ free(location + 6), MoveOf(piece, 3))
     \o SeqIf(location # 0 /\ free(location - 1), MoveOf(piece, 1))
     \o SeqIf(col # COL - 1 /\ free(location + 1), MoveOf(piece, 2))

\* the four orthogonal tests of gen_move
gen_move_normal(g, piece, location) ==
  LET row == location \div ROW
      col == location % COL
      free(c) == IF g.nowTurn = USER THEN g.board[c] <= 0 ELSE g.board[c] >= 0
  IN SeqIf(row # 0 /\ free(location - 6), MoveOf(piece, 0))
     \o SeqIf(row # ROW - 1 /\ free(location + 6), MoveOf(piece, 3))
     \o SeqIf(col # 0 /\ free(location - 1), MoveOf(piece, 1))
     \o SeqIf(col # COL - 1 /\ free(location + 1), MoveOf(piece, 2))

\* gen_move with the colour test of the escape branch left out
gen_move_escape_anycolor(g, piece, location) ==
  IF g.nowTurn = USER
    THEN SeqIf(location = 0, MoveOf(piece, 1)) \o SeqIf(location = 5, MoveOf(piece, 2))
    ELSE SeqIf(location = 30, MoveOf(piece, 1)) \o SeqIf(location = 35, MoveOf(piece, 2))

\* the escape branch of gen_move (blue pieces only)
gen_move_escape(g, piece, location) ==
  IF g.nowTurn = USER
    THEN IF g.color[piece] = BLUE
           THEN SeqIf(location = 0, MoveOf(piece, 1)) \o SeqIf(location = 5, MoveOf(piece, 2))
           ELSE << >>
    ELSE IF g.color[piece] = -BLUE
           THEN SeqIf(location = 30, MoveOf(piece, 1)) \o SeqIf(location = 35, MoveOf(piece, 2))
           ELSE << >>

gen_move(g, piece, location) ==
  gen_move_normal(g, piece, location) \o gen_move_escape(g, piece, location)

RECURSIVE gen_all_from(_, _)
gen_all_from(g, i) ==
  IF i >= PIECES THEN << >>
  ELSE LET offset == IF g.nowTurn = ENEMY THEN PIECES ELSE 0
       IN (IF g.pos[i + offset] # -1
             THEN gen_move(g, i + offset, g.pos[i + offset])
             ELSE << >>)
          \o gen_all_from(g, i + 1)

gen_all_move(g) == gen_all_from(g, 0)

Range(s) == {s[k] : k \in 1 .. Len(s)}

\* the escape moves gen_all_move emits, as a set
RECURSIVE escape_from(_, _)
escape_from(g, i) ==
  IF i >= PIECES THEN {}
  ELSE LET offset == IF g.nowTurn = ENEMY THEN PIECES ELSE 0
       IN (IF g.pos[i + offset] # -1
             THEN Range(gen_move_escape(g, i + offset, g.pos[i + offset]))
             ELSE {})
          \cup escape_from(g, i + 1)

(***************************************************************************)
(* check_win_move and GST::do_move                                         *)
(***************************************************************************)
check_win_move(location, dir) ==
  IF location = 0 \/ location = 30 THEN dir = 1
  ELSE IF location = 5 \/ location = 35 THEN dir = 2
  ELSE FALSE

\* no move is resolved as an escape win
is_escape_win_never(g, move) == FALSE

\* the test at the head of do_move that resolves a move as an escape win
is_escape_win(g, move) ==
  /\ Abs(g.color[PieceOf(move)]) = BLUE
  /\ check_win_move(g.pos[PieceOf(move)], DirOf(move))

\* piece_nums index of a captured piece's colour; -1: unknown, nothing counted;
\* -2: impossible colour (exit(1))
bucket_of(c, mover_is_user_side) ==
  IF mover_is_user_side
    THEN (CASE c = -RED -> 2 [] c = -BLUE -> 3 [] c = -UNKNOWN -> -1 [] OTHER -> -2)
    ELSE (CASE c = RED -> 0 [] c = BLUE -> 1 [] c = UNKNOWN -> -1 [] OTHER -> -2)

\* history[n] = move.  The array is kept as the sequence of its entries
\* 0 .. Len-1; an entry skipped by an escape win holds UNWRITTEN.
UNWRITTEN == -1

RECURSIVE pad_history(_, _)
pad_history(h, n) == IF Len(h) >= n THEN h ELSE pad_history(Append(h, UNWRITTEN), n)

put_history(h, n, move) ==
  IF n < Len(h) THEN [h EXCEPT ![n + 1] = move] ELSE Append(pad_history(h, n), move)

do_move(g, move0) ==
  LET piece == PieceOf(move0)
      direction == DirOf(move0)
  IN IF piece \notin PieceIds
       \* color[piece] and pos[piece] are read outside the arrays
       THEN [g EXCEPT !.fatal = "undefined"]
     ELSE IF is_escape_win(g, move0)
       THEN [g EXCEPT !.winner = g.nowTurn,
                      !.n_plies = @ + 1,
                      !.nowTurn = Toggle(@),
                      !.is_escape = TRUE]
     ELSE IF g.n_plies = MAX_PLIES
       THEN [g EXCEPT !.fatal = "cannot do anymore moves"]
     ELSE IF \/ direction > 3
             \* a captured piece: board[pos[piece]] is board[-1]
             \/ g.pos[piece] \notin Cells
             \/ g.pos[piece] + dir_val[direction] \notin Cells
       THEN [g EXCEPT !.fatal = "undefined"]
     ELSE IF g.n_plies > MAX_PLIES
       \* history[n_plies++] = move is a write past the end of int history[1000]
       THEN [g EXCEPT !.fatal = "undefined"]
     ELSE
       LET src == g.pos[piece]
           dst == src + dir_val[direction]
           eaten == g.piece_board[dst]
           capture == g.board[dst] # 0
           bucket == IF capture THEN bucket_of(g.color[eaten], g.board[dst] < 0) ELSE -1
           \* move |= eaten << 8, or move |= 0x1000
           move == IF capture THEN move0 + eaten * 256 ELSE move0 + 4096
       IN IF bucket = -2
            THEN [g EXCEPT !.pos[eaten] = -1,
                           !.revealed[eaten] = TRUE,
                           !.fatal = "do_move error, eaten color wrong!"]
            ELSE
              LET pos1 == IF capture THEN [g.pos EXCEPT ![eaten] = -1] ELSE g.pos
              IN [g EXCEPT
                    !.pos = [pos1 EXCEPT ![piece] = dst],
                    !.revealed = IF capture THEN [@ EXCEPT ![eaten] = TRUE] ELSE @,
                    !.piece_nums = IF bucket >= 0 THEN [@ EXCEPT ![bucket] = @ - 1] ELSE @,
                    !.board = [@ EXCEPT ![src] = 0, ![dst] = g.color[piece]],
                    !.piece_board = [@ EXCEPT ![src] = -1, ![dst] = piece],
                    !.history = put_history(@, g.n_plies, move),
                    !.n_plies = @ + 1,
                    !.nowTurn = Toggle(@)]

(***************************************************************************)
(* GST::undo.  The history entry is read before the escape test; when the  *)
(* last move was an escape win no entry was written for it, and the value  *)
(* read is discarded by the early return.                                  *)
(***************************************************************************)
\* undo that leaves the winner field alone
undo_keep_winner(g) ==
  IF g.n_plies = 0 THEN [g EXCEPT !.fatal = "no history"]
  ELSE IF g.is_escape
    THEN [g EXCEPT !.nowTurn = Toggle(@), !.n_plies = @ - 1, !.is_escape = FALSE]
  ELSE [g EXCEPT !.nowTurn = Toggle(@), !.n_plies = @ - 1]

\* undo without the early return for an escape win: the entry read from
\* history is used
undo_no_escape_test(g) ==
  LET g1 == [g EXCEPT !.winner = NO_WINNER]
  IN IF g.n_plies = 0
       THEN [g1 EXCEPT !.fatal = "no history"]
     ELSE IF g.n_plies > Len(g.history) \/ g.history[g.n_plies] = UNWRITTEN
       THEN [g1 EXCEPT !.nowTurn = Toggle(@), !.n_plies = @ - 1, !.fatal = "undefined"]
     ELSE [g1 EXCEPT !.nowTurn = Toggle(@), !.n_plies = @ - 1, !.is_escape = FALSE]

\* undo that pops the history before testing for an empty one
undo_read_first(g) ==
  LET g1 == [g EXCEPT !.winner = NO_WINNER]
  IN IF g.n_plies = 0
       THEN [g1 EXCEPT !.nowTurn = Toggle(@), !.n_plies = @ - 1, !.fatal = "undefined"]
     ELSE [g1 EXCEPT !.nowTurn = Toggle(@), !.n_plies = @ - 1, !.is_escape = FALSE]

undo(g) ==
  LET g1 == [g EXCEPT !.winner = NO_WINNER]
  IN IF g.n_plies = 0
       THEN [g1 EXCEPT !.fatal = "no history"]
     ELSE
       LET n == g.n_plies - 1
           turn == Toggle(g.nowTurn)
           g2 == [g1 EXCEPT !.nowTurn = turn, !.n_plies = n]
       IN IF g.is_escape
            THEN [g2 EXCEPT !.is_escape = FALSE]
          ELSE IF n + 1 > Len(g.history) \/ g.history[n + 1] = UNWRITTEN
            THEN [g2 EXCEPT !.fatal = "undefined"]
          ELSE
            LET move == g.history[n + 1]
                check_eaten == move \div 4096
                eaten_piece == (move % 4096) \div 256
                piece == (move % 256) \div 16
                direction == move % 16
                cur == g.pos[piece]
                src == cur - dir_val[direction]
                bucket == IF check_eaten # 1
                            THEN bucket_of(g.color[eaten_piece], turn = USER)
                            ELSE -1
            IN IF cur \notin Cells \/ src \notin Cells
                 \* board[pos[piece]] or board[src] is outside the board arrays
                 THEN [g2 EXCEPT !.fatal = "undefined"]
               ELSE IF bucket = -2
                 THEN [g2 EXCEPT !.board[cur] = g.color[eaten_piece],
                                 !.piece_board[cur] = eaten_piece,
                                 !.pos[eaten_piece] = cur,
                                 !.fatal = "undo error, eaten color wrong!"]
                 ELSE
                   LET pos1 == IF check_eaten # 1
                                 THEN [g.pos EXCEPT ![eaten_piece] = cur]
                                 ELSE g.pos
                   IN [g2 EXCEPT
                         !.board = [@ EXCEPT ![cur] = IF check_eaten # 1
                                                        THEN g.color[eaten_piece] ELSE 0,
                                             ![src] = g.color[piece]],
                         !.piece_board = [@ EXCEPT ![cur] = IF check_eaten # 1
                                                              THEN eaten_piece ELSE -1,
                                                   ![src] = piece],
                         !.piece_nums = IF bucket >= 0 THEN [@ EXCEPT ![bucket] = @ + 1] ELSE @,
                         !.pos = [pos1 EXCEPT ![piece] = src]]

(***************************************************************************)
(* GST::is_over: the returned flag and the state it leaves (it writes the  *)
(* winner field).                                                          *)
(***************************************************************************)
\* is_over with the two sides of the elimination test exchanged
is_over_winner_swapped(g) ==
  IF g.n_plies >= PLY_CAP THEN DRAW
  ELSE IF g.winner # NO_WINNER THEN g.winner
  ELSE IF g.piece_nums[0] = 0 \/ g.piece_nums[3] = 0 THEN ENEMY
  ELSE IF g.piece_nums[1] = 0 \/ g.piece_nums[2] = 0 THEN USER
  ELSE g.winner

is_over_winner(g) ==
  IF g.n_plies >= PLY_CAP THEN DRAW
  ELSE IF g.winner # NO_WINNER THEN g.winner
  ELSE IF g.piece_nums[0] = 0 \/ g.piece_nums[3] = 0 THEN USER
  ELSE IF g.piece_nums[1] = 0 \/ g.piece_nums[2] = 0 THEN ENEMY
  ELSE g.winner

is_over(g) ==
  \/ g.n_plies >= PLY_CAP
  \/ g.winner # NO_WINNER
  \/ g.piece_nums[0] = 0 \/ g.piece_nums[3] = 0
  \/ g.piece_nums[1] = 0 \/ g.piece_nums[2] = 0

is_over_state(g) == [g EXCEPT !.winner = is_over_winner(g)]

(***************************************************************************)
(* Positions the program is started from: init_board followed by a fixed   *)
(* line of legal moves and undos.  Play refuses a move gen_all_move does    *)
(* not list.                                                               *)
(***************************************************************************)
\* a script entry that stands for a call of undo
UNDO == -9

PlayOne(g, m) ==
  IF g.fatal = "" /\ m = UNDO
    THEN undo(g)
  ELSE IF g.fatal = "" /\ m \in Range(gen_all_move(g))
    THEN do_move(g, m)
    ELSE [g EXCEPT !.fatal = "illegal script"]

\* the moves script[lo .. hi] applied in order (split in halves to keep the
\* evaluation shallow)
RECURSIVE Play(_, _, _, _)
Play(g, script, lo, hi) ==
  IF lo > hi THEN g
  ELSE IF lo = hi THEN PlayOne(g, script[lo])
  ELSE LET mid == (lo + hi) \div 2
           half == Play(g, script, lo, mid)
       IN IF half.fatal = "" THEN Play(half, script, mid + 1, hi) ELSE half

Repeat(cycle, n) == [k \in 1 .. (n * Len(cycle)) |-> cycle[((k - 1) % Len(cycle)) + 1]]

\* A walks up the left column to cell 0 while a walks down the right column to 35
LineCorners == <<1, 130, 0, 131, 0, 131, 0, 131, 0, 131>>
\* c captures B, C and D and comes back next to A
LineCapture == <<65, 163, 66, 163, 65, 163, 66, 162, 65, 162, 66, 161, 65, 161, 66>>
\* h and E step aside and back: four plies that restore the position
LineShuffle == <<241, 65, 242, 66>>
\* C and B capture six pieces, A comes up: g and h are cornered by A, B and C
LineCornered == <<32, 241, 32, 242, 32, 241, 34, 242, 32, 241, 33, 242, 16, 241, 16, 242,
                  16, 241, 17, 242, 1, 241, 0, 242, 0, 241, 0, 225, 33>>

Start(ured, ered, script) == Play(init_board(ured, ered), script, 1, Len(script))

GameStarts ==
  { Start({0, 1, 2, 3}, {8, 9, 10, 11}, << >>),
    Start({1, 2, 3, 4}, {9, 10, 11, 12}, LineCorners),
    Start({1, 2, 3, 4}, {9, 10, 11, 12}, LineCorners \o <<16>>),
    Start({1, 2, 3, 4}, {8, 9, 10, 11}, LineCorners \o <<16>>),
    Start({4, 5, 6, 7}, {12, 13, 14, 15}, LineCapture),
    Start({0, 1, 2, 3}, {12, 13, 14, 15}, LineCapture),
    Start({4, 5, 6, 7}, {12, 13, 14, 15}, LineCapture \o Repeat(LineShuffle, 46)),
    Start({0, 1, 2, 3}, {12, 13, 14, 15}, LineCapture \o Repeat(LineShuffle, 46)) }

(***************************************************************************)
(* The N-tuple evaluator: the patterns of is_valid_pattern, their location *)
(* codes, DATA::init_data and compute_board_weight.  A weight is kept in   *)
(* thousandths.                                                            *)
(***************************************************************************)
POS_NUM == 1537019
FEATURE_NUM == 256
TUPLE_NUM == 61
\* LUTwr_*[i] = 0.5 of init_data
INIT_WIN_RATE_MILLI == 500

offset_1x4 == <<0, 1, 2, 3>>
offset_2x2 == <<0, 1, 6, 7>>
offset_4x1 == <<0, 6, 12, 18>>

\* is_valid_pattern that lets a horizontal pattern start one column further
is_valid_pattern_wide(base_pos, offset) ==
  LET base_row == base_pos \div COL
      base_col == base_pos % COL
  IN IF offset = offset_1x4 THEN ~(base_col > 3)
     ELSE IF offset = offset_2x2 THEN ~(base_col > 4 \/ base_row > 4)
     ELSE IF offset = offset_4x1 THEN ~(base_row > 2)
     ELSE TRUE

is_valid_pattern(base_pos, offset) ==
  LET base_row == base_pos \div COL
      base_col == base_pos % COL
  IN IF offset = offset_1x4 THEN ~(base_col > 2)
     ELSE IF offset = offset_2x2 THEN ~(base_col > 4 \/ base_row > 4)
     ELSE IF offset = offset_4x1 THEN ~(base_row > 2)
     ELSE TRUE

get_loc(base_pos, offset) ==
  (base_pos + offset[1]) * 36 * 36 * 36 + (base_pos + offset[2]) * 36 * 36
    + (base_pos + offset[3]) * 36 + (base_pos + offset[4])

\* trans[loc]: the table is zero-initialised and has POS_NUM + 1 entries; it
\* is kept as the function of the entries init_data has written.  -1: a
\* read outside the table
trans_at(t, loc) ==
  IF loc < 0 \/ loc > POS_NUM THEN -1
  ELSE IF loc \in DOMAIN t THEN t[loc]
  ELSE 0

\* loca_num when the loop of DATA::init_data reaches cell i: one more for
\* every pattern an earlier cell has encoded
loca_num_at(i) ==
  Cardinality({j \in 0 .. i - 1 : j % 6 <= 2})
    + Cardinality({j \in 0 .. i - 1 : j < 18})
    + Cardinality({j \in 0 .. i - 1 : j % 6 <= 4 /\ j < 30})

\* the assignments trans[loc] = loca_num of the loop body for cell i, as
\* pairs <<loc, loca_num>>
init_data_cell(i) ==
  LET h == i % 6 <= 2
      v == i < 18
      q == i % 6 <= 4 /\ i < 30
      n1 == loca_num_at(i) + (IF h THEN 1 ELSE 0)
      n2 == n1 + (IF v THEN 1 ELSE 0)
      n3 == n2 + (IF q THEN 1 ELSE 0)
  IN (IF h THEN {<<get_loc(i, <<0, 1, 2, 3>>), n1>>} ELSE {})
       \cup (IF v THEN {<<get_loc(i, <<0, 6, 12, 18>>), n2>>} ELSE {})
       \cup (IF q THEN {<<get_loc(i, <<0, 1, 6, 7>>), n3>>} ELSE {})

\* trans after init_data: an entry holds the last value assigned to it, and
\* loca_num only grows
init_data ==
  LET writes == UNION {init_data_cell(i) : i \in 0 .. ROW * COL - 1}
  IN [loc \in {w[1] : w \in writes} |->
        CHOOSE n \in {w[2] : w \in {x \in writes : x[1] = loc}} :
          \A w \in {x \in writes : x[1] = loc} : w[2] <= n]

LUT_idx(location, feature) == (location - 1) * FEATURE_NUM + feature

\* feature_cache of compute_board_weight
feature_cache(g) ==
  [pos \in Cells |->
     IF g.nowTurn = USER
       THEN (IF g.board[pos] < 0 THEN 3 ELSE g.board[pos])
       ELSE (IF g.board[pos] > 0 THEN 3 ELSE -g.board[pos])]

\* -1: a cell of the pattern is outside feature_cache
get_feature_unknown(base_pos, offset, cache) ==
  IF \E i \in 1 .. 4 : base_pos + offset[i] \notin Cells THEN -1
  ELSE cache[base_pos + offset[1]] * 64 + cache[base_pos + offset[2]] * 16
         + cache[base_pos + offset[3]] * 4 + cache[base_pos + offset[4]]

\* the table get_weight reads
lut_of(g) ==
  IF g.nowTurn = USER
    THEN (IF g.piece_nums[2] = 1 THEN "LUTwr_U_R1"
          ELSE IF g.piece_nums[1] = 1 THEN "LUTwr_U_B1" ELSE "LUTwr_U")
    ELSE (IF g.piece_nums[0] = 1 THEN "LUTwr_E_R1"
          ELSE IF g.piece_nums[3] = 1 THEN "LUTwr_E_B1" ELSE "LUTwr_E")

\* get_weight: the entry read and its value; every table holds the value
\* init_data gave it.  An index outside the table is a read of anything
get_weight(g, base_pos, offset, t, cache) ==
  LET id == trans_at(t, get_loc(base_pos, offset))
      feature == get_feature_unknown(base_pos, offset, cache)
      LUTidx == LUT_idx(id, feature)
  IN [base_pos |-> base_pos, offset |-> offset, id |-> id, lut |-> lut_of(g),
      LUTidx |-> LUTidx,
      weight |-> IF feature >= 0 /\ LUTidx \in 0 .. (TUPLE_NUM * FEATURE_NUM)
                   THEN INIT_WIN_RATE_MILLI
                   ELSE -1]

\* what the pattern loop of compute_board_weight adds for the cells
\* lo .. hi, in order (split in halves to keep the evaluation shallow)
RECURSIVE pattern_weights(_, _, _, _, _)
pattern_weights(g, t, cache, lo, hi) ==
  IF lo > hi THEN << >>
  ELSE IF lo = hi
    THEN SeqIf(is_valid_pattern(lo, offset_1x4),
               get_weight(g, lo, offset_1x4, t, cache))
           \o SeqIf(is_valid_pattern(lo, offset_4x1),
                    get_weight(g, lo, offset_4x1, t, cache))
           \o SeqIf(is_valid_pattern(lo, offset_2x2),
                    get_weight(g, lo, offset_2x2, t, cache))
  ELSE LET mid == (lo + hi) \div 2
       IN pattern_weights(g, t, cache, lo, mid) \o pattern_weights(g, t, cache, mid + 1, hi)

\* total_weight += weight over summed[lo .. hi]
RECURSIVE sum_weights(_, _, _)
sum_weights(summed, lo, hi) ==
  IF lo > hi THEN 0
  ELSE IF lo = hi THEN summed[lo].weight
  ELSE LET mid == (lo + hi) \div 2
       IN sum_weights(summed, lo, mid) + sum_weights(summed, mid + 1, hi)

compute_board_weight(g, t) ==
  LET summed == pattern_weights(g, t, feature_cache(g), 0, ROW * COL - 1)
      total_weight == sum_weights(summed, 1, Len(summed))
  IN [done |-> TRUE, summed |-> summed, total_weight |-> total_weight,
      value |-> total_weight \div TUPLE_NUM]

(***************************************************************************)
(* GST::highest_weight.  The tables of DATA are read from files, so a      *)
(* board weight is kept as the list of the table entries it sums; the      *)
(* move returned is one of unknown weight.                                 *)
(***************************************************************************)
\* the entries compute_board_weight sums: the table and the index of each
board_weight_reads(g, t) ==
  LET summed == compute_board_weight(g, t).summed
  IN [k \in 1 .. Len(summed) |-> <<summed[k].lut, summed[k].LUTidx>>]

\* dst / 6 and dst % 6 of C++, which truncate towards zero
row_of(dst) == IF dst < 0 THEN -((-dst) \div 6) ELSE dst \div 6
col_of(dst) == IF dst < 0 THEN -((-dst) % 6) ELSE dst % 6

\* the distance of a cell to corner 0 (cell 0), 1 (cell 5), 2 (cell 30), 3 (cell 35)
corner_dist(cell, corner) ==
  LET row == row_of(cell)
      col == col_of(cell)
  IN CASE corner = 0 -> row + col
       [] corner = 1 -> row + (5 - col)
       [] corner = 2 -> (5 - row) + col
       [] OTHER -> (5 - row) + (5 - col)

\* pieces_distances: (piece, corner, distance) for the mover's pieces on the board
pieces_distances(g) ==
  LET own == IF g.nowTurn = USER THEN 0 .. (PIECES - 1)
             ELSE IF g.nowTurn = ENEMY THEN PIECES .. (2 * PIECES - 1)
             ELSE {}
  IN {<<i, c, corner_dist(g.pos[i], c)>> : i \in {j \in own : g.pos[j] # -1}, c \in 0 .. 3}

\* the tuples of one distance are visited in the order std::sort left them
\* in, which is not specified: the assignments the loop can make among them
\* are the maximal sets of pairs with distinct free pieces and free corners
level_assignments(asg, tuples) ==
  LET free == {x \in tuples : /\ x[1] \notin {y[1] : y \in asg}
                              /\ x[2] \notin {y[2] : y \in asg}}
      matching(M) == \A x, y \in M : x # y => (x[1] # y[1] /\ x[2] # y[2])
      maximal(M) == \A x \in free \ M : ~matching(M \cup {x})
  IN {asg \cup {<<x[1], x[2]>> : x \in M} :
        M \in {N \in SUBSET free : matching(N) /\ maximal(N)}}

\* assigned_corner_for_piece after the tuples of distance d and more: the
\* sets of (piece, corner) pairs the loop can end with
RECURSIVE assign_corners_from(_, _, _)
assign_corners_from(asgs, tuples, d) ==
  IF d > 10 THEN asgs
  ELSE assign_corners_from(
         UNION {level_assignments(a, {x \in tuples : x[3] = d}) : a \in asgs},
         tuples, d + 1)

assigned_corner_for_piece(g) == assign_corners_from({{}}, pieces_distances(g), 0)

\* corner_bonus = 1.01 for the move under assignment asg
corner_bonus(g, move, asg) ==
  LET piece == PieceOf(move)
      src == g.pos[piece]
      dst == src + dir_val[DirOf(move)]
  IN \E c \in 0 .. 3 : <<piece, c>> \in asg /\ corner_dist(dst, c) < corner_dist(src, c)

\* the cell whose board entry the last test of the loop body reads, or -1
\* when piece_nums[2] <= 1 fails and nothing is read
sparse_read(g, move) ==
  IF g.piece_nums[2] <= 1 THEN <<g.pos[PieceOf(move)] + dir_val[DirOf(move)]>> ELSE << >>

\* the outcomes of "piece_nums[2] <= 1 && board[dst] == 0"; a read outside
\* the array gives any value
sparse_bonus(g, move) ==
  LET rd == sparse_read(g, move)
  IN IF rd = << >> THEN {FALSE}
     ELSE IF rd[1] \in Cells THEN {g.board[rd[1]] = 0}
     ELSE {TRUE, FALSE}

\* the branch of the if-chain the move takes: "win" sets WEIGHT to 1,
\* "skip" is a branch whose inner test fails and that assigns nothing,
\* "general" is the last branch
highest_weight_branch(g, move) ==
  LET piece == PieceOf(move)
      direction == DirOf(move)
      p == g.pos[piece]
      u == g.nowTurn = USER
      e == g.nowTurn = ENEMY
  IN IF p = 0 /\ direction = 1 /\ u /\ g.board[0] = BLUE THEN "win"
     ELSE IF p = 5 /\ direction = 2 /\ u /\ g.board[5] = BLUE THEN "win"
     ELSE IF p = 30 /\ direction = 1 /\ e /\ g.board[30] = -BLUE THEN "win"
     ELSE IF p = 35 /\ direction = 2 /\ e /\ g.board[35] = -BLUE THEN "win"
     ELSE IF p = 4 /\ direction = 2 /\ u /\ g.color[piece] = BLUE
       THEN (IF g.board[5] = 0 /\ g.board[11] >= 0 THEN "win" ELSE "skip")
     ELSE IF p = 1 /\ direction = 1 /\ u /\ g.color[piece] = BLUE
       THEN (IF g.board[0] = 0 /\ g.board[6] >= 0 THEN "win" ELSE "skip")
     ELSE IF p = 34 /\ direction = 2 /\ e /\ g.color[piece] = -BLUE
       THEN (IF g.board[35] = 0 /\ g.board[29] <= 0 THEN "win" ELSE "skip")
     ELSE IF p = 31 /\ direction = 1 /\ e /\ g.color[piece] = -BLUE
       THEN (IF g.board[30] = 0 /\ g.board[24] <= 0 THEN "win" ELSE "skip")
     ELSE "general"

\* no colour is masked
mask_colors_off(g) == g

\* "Mask hidden info": the colours of the side that is not to move
mask_colors(g) ==
  [g EXCEPT !.color =
     [i \in PieceIds |->
        IF g.nowTurn = USER THEN (IF i >= PIECES THEN -UNKNOWN ELSE @[i])
        ELSE (IF i < PIECES THEN UNKNOWN ELSE @[i])]]

\* the general case: colours saved and masked, the move played, the board
\* weight computed with the mover to move, the move undone, colours restored
highest_weight_general(g, move, t) ==
  LET g1 == do_move(mask_colors(g), move)
      g2 == [g1 EXCEPT !.nowTurn = Toggle(@)]
      g3 == undo([g2 EXCEPT !.nowTurn = Toggle(@)])
  IN [state |-> [g3 EXCEPT !.color = g.color], reads |-> board_weight_reads(g2, t)]

\* what the loop body leaves in WEIGHT[m] and the indices it uses: the
\* branch, the entries of the board weight, the bonus factors it can apply
\* and the cells of board[] it reads after the if-chain
weigh_move(g, move, t, asgs) ==
  LET branch == highest_weight_branch(g, move)
      gen == highest_weight_general(g, move, t)
  IN [state |-> IF branch = "general" THEN gen.state ELSE g,
      entry |-> [move |-> move, branch |-> branch,
                 reads |-> IF branch = "general" THEN gen.reads ELSE << >>,
                 corner |-> {corner_bonus(g, move, a) : a \in asgs},
                 sparse |-> sparse_bonus(g, move),
                 cells |-> sparse_read(g, move)]]

\* the loop over root_moves[m .. root_nmove - 1] on the state the earlier
\* passes have left
RECURSIVE highest_weight_from(_, _, _, _, _, _)
highest_weight_from(g, root_moves, m, t, asgs, WEIGHT) ==
  IF m > Len(root_moves) \/ g.fatal # "" THEN [state |-> g, WEIGHT |-> WEIGHT]
  ELSE CHOOSE r \in {highest_weight_from(w.state, root_moves, m + 1, t, asgs,
                                          Append(WEIGHT, w.entry)) :
                        w \in {weigh_move(g, root_moves[m], t, asgs)}} : TRUE

\* GST::highest_weight: the state it leaves and the WEIGHT array; the value
\* returned is root_moves[chosen_idx] for the index of a largest weight
highest_weight(g, t) ==
  highest_weight_from(g, gen_all_move(g), 1, t, assigned_corner_for_piece(g), << >>)

\* the state highest_weight leaves: only the general case writes to it
RECURSIVE highest_weight_state_from(_, _, _)
highest_weight_state_from(g, root_moves, m) ==
  IF m > Len(root_moves) \/ g.fatal # "" THEN g
  ELSE CHOOSE r \in {highest_weight_state_from(g1, root_moves, m + 1) :
                        g1 \in {IF highest_weight_branch(g, root_moves[m]) = "general"
                                   THEN highest_weight_general(g, root_moves[m], << >>).state
                                   ELSE g}} : TRUE

highest_weight_state(g) == highest_weight_state_from(g, gen_all_move(g), 1)

(***************************************************************************)
(* The caller's game: one long-lived state, on which do_move, undo and     *)
(* is_over are called.                                                     *)
(***************************************************************************)
\* number of do_move / undo calls followed from a starting position
MaxOps == 2

VARIABLES
  game,      \* the caller's GST
  snap,      \* the caller's GST before its last do_move
  lastOp,    \* the last call on game: its name, argument, and what it returned
  nops,      \* number of do_move / undo calls so far
  drawSeen,  \* is_over has reported the draw sentinel
  engine,             \* which findBestMove is running: "MCTS" or "ISMCTS"
  simulations,        \* the engine's constructor argument
  iter,               \* the loop counter i of findBestMove
  pc,                 \* the stage findBestMove is at
  tree,               \* the nodes allocated so far; tree[1] is the root
  currentNode,        \* the node selection / expansion left off at
  det,                \* ISMCTS: determinizedState of the current iteration
  result,             \* the value simulation returned
  arrangement_stats,  \* ISMCTS: key -> <<wins, total>>
  root_player,        \* ISMCTS: game.nowTurn at the call
  ret,                \* the value findBestMove returned
  nodeToSimulate,     \* MCTS: the node the last rollout was run for
  simulationState,    \* MCTS: the state the last rollout started from
  simWinner,          \* simState.get_winner() at the end of the last rollout
  simState,           \* ISMCTS: the copy the running rollout plays on
  step,               \* ISMCTS: the moves the running rollout has played
  policy,             \* ISMCTS: how the rollout chose its last move
  d_trans,            \* DATA::trans of the global data
  query,              \* the (base cell, shape) a pattern is asked for
  answer,             \* what is_valid_pattern, get_loc and trans give for it
  cbw,                \* the last compute_board_weight: what it summed, its value
  WEIGHT              \* the array WEIGHT of the last highest_weight

gameVars == <<lastOp, nops, drawSeen>>
rolloutVars == <<nodeToSimulate, simulationState, simWinner, simState, step, policy>>
searchVars == <<engine, simulations, iter, pc, tree, currentNode, det, result,
                arrangement_stats, root_player, ret, rolloutVars>>
evalVars == <<d_trans, query, answer, cbw, WEIGHT>>
vars == <<game, snap, gameVars, searchVars, evalVars>>

\* the GST of MyAI.cpp before any call: a global, zero-initialised
zero_gst ==
  [board |-> [c \in Cells |-> 0], piece_board |-> [c \in Cells |-> 0],
   pos |-> [p \in PieceIds |-> 0], color |-> [p \in PieceIds |-> 0],
   piece_nums |-> [k \in 0 .. 3 |-> 0], revealed |-> [p \in PieceIds |-> FALSE],
   nowTurn |-> 0, winner |-> 0, is_escape |-> FALSE, n_plies |-> 0,
   history |-> << >>, fatal |-> ""]

\* no search is running
SearchIdle ==
  /\ engine = "none" /\ simulations = 0 /\ iter = 0 /\ pc = "idle"
  /\ tree = << >> /\ currentNode = 0 /\ det = zero_gst /\ result = 0
  /\ arrangement_stats = << >> /\ root_player = USER /\ ret = -1
  /\ nodeToSimulate = 0 /\ simulationState = zero_gst /\ simWinner = NO_WINNER
  /\ simState = zero_gst /\ step = 0 /\ policy = "none"

\* the evaluator has not been used
NoAnswer == [asked |-> FALSE, valid |-> FALSE, loc |-> 0, id |-> 0]
NoWeight == [done |-> FALSE, summed |-> << >>, total_weight |-> 0, value |-> 0]
EvalIdle ==
  /\ d_trans = << >> /\ query = [base_pos |-> 0, offset |-> offset_1x4]
  /\ answer = NoAnswer /\ cbw = NoWeight /\ WEIGHT = << >>

\* w: the winner field before the call
NoOp == [op |-> "init", move |-> -1, esc |-> FALSE, rt |-> FALSE, ret |-> FALSE, w |-> -1]

Init ==
  /\ game \in {g \in GameStarts : g.fatal = ""}
  /\ snap = game
  /\ lastOp = NoOp
  /\ nops = 0
  /\ drawSeen = FALSE
  /\ SearchIdle
  /\ EvalIdle

\* game.do_move(m) for a move m of gen_all_move
DoMove ==
  /\ game.fatal = ""
  /\ nops < MaxOps
  /\ \E m \in Range(gen_all_move(game)) :
       /\ game' = do_move(game, m)
       /\ lastOp' = [op |-> "do_move", move |-> m, esc |-> is_escape_win(game, m),
                     rt |-> FALSE, ret |-> FALSE, w |-> game.winner]
  /\ snap' = game
  /\ nops' = nops + 1
  /\ UNCHANGED <<evalVars, drawSeen, searchVars>>

\* game.undo()
Undo ==
  /\ game.fatal = ""
  /\ nops < MaxOps
  /\ game' = undo(game)
  /\ lastOp' = [op |-> "undo", move |-> lastOp.move, esc |-> lastOp.esc,
                rt |-> (lastOp.op = "do_move"), ret |-> FALSE, w |-> game.winner]
  /\ snap' = snap
  /\ nops' = nops + 1
  /\ UNCHANGED <<evalVars, drawSeen, searchVars>>

\* game.is_over()
IsOver ==
  /\ game.fatal = ""
  /\ game' = is_over_state(game)
  /\ lastOp' = [op |-> "is_over", move |-> -1, esc |-> FALSE, rt |-> FALSE,
                ret |-> is_over(game), w |-> game.winner]
  /\ drawSeen' = (drawSeen \/ is_over_winner(game) = DRAW)
  /\ UNCHANGED <<evalVars, snap, nops, searchVars>>

Next == DoMove \/ Undo \/ IsOver

Spec == Init /\ [][Next]_vars

(***************************************************************************)
(* GST::set_board: the state is rebuilt from the server's position string, *)
(* three characters per piece (x, y, colour).  The fields it does not      *)
(* assign (n_plies, is_escape, history, and the colour of a piece whose    *)
(* letter it does not recognise) keep their previous value.                *)
(***************************************************************************)
\* x - '0' for a digit character
DigitOf == [ch \in {"0", "1", "2", "3", "4", "5", "6", "7", "8", "9"} |->
              CASE ch = "0" -> 0 [] ch = "1" -> 1 [] ch = "2" -> 2 [] ch = "3" -> 3
                [] ch = "4" -> 4 [] ch = "5" -> 5 [] ch = "6" -> 6 [] ch = "7" -> 7
                [] ch = "8" -> 8 [] ch = "9" -> 9]

\* the body of the loop of set_board for piece i
set_board_piece(g, i, x, y, c) ==
  IF x = "9" /\ y = "9"
    THEN LET g1 == [g EXCEPT !.pos[i] = -1, !.revealed[i] = TRUE]
         IN IF i < PIECES
              THEN IF c = "r" THEN [g1 EXCEPT !.color[i] = RED, !.piece_nums[0] = @ - 1]
                   ELSE IF c = "b" THEN [g1 EXCEPT !.color[i] = BLUE, !.piece_nums[1] = @ - 1]
                   ELSE g1
              ELSE IF c = "r" THEN [g1 EXCEPT !.color[i] = -RED, !.piece_nums[2] = @ - 1]
                   ELSE IF c = "b" THEN [g1 EXCEPT !.color[i] = -BLUE, !.piece_nums[3] = @ - 1]
                   ELSE g1
    ELSE LET pos_val == DigitOf[x] + DigitOf[y] * COL
             col == IF i < PIECES
                      THEN (IF c = "R" THEN RED ELSE IF c = "B" THEN BLUE ELSE g.color[i])
                      ELSE (IF c = "u" THEN -UNKNOWN ELSE g.color[i])
         IN IF pos_val \notin Cells
              THEN [g EXCEPT !.fatal = "undefined"]
              ELSE [g EXCEPT !.pos[i] = pos_val, !.color[i] = col,
                             !.revealed[i] = (i < PIECES),
                             !.board[pos_val] = col, !.piece_board[pos_val] = i]

RECURSIVE set_board_from(_, _, _)
set_board_from(g, position, i) ==
  IF i >= PIECES * 2 \/ g.fatal # "" THEN g
  ELSE LET g1 == set_board_piece(g, i, position[3 * i + 1], position[3 * i + 2],
                                 position[3 * i + 3])
       IN IF g1.fatal = "" THEN set_board_from(g1, position, i + 1) ELSE g1

set_board(g, position) ==
  set_board_from([g EXCEPT !.board = [c \in Cells |-> 0],
                           !.pos = [p \in PieceIds |-> 0],
                           !.revealed = [p \in PieceIds |-> FALSE],
                           !.piece_board = [c \in Cells |-> -1],
                           !.piece_nums = [k \in 0 .. 3 |-> 4],
                           !.nowTurn = USER,
                           !.winner = NO_WINNER],
                 position, 0)

\* the position of the comment in set_board:
\* 10B24B34B99b15R25R35R99r45u31u21u99r40u30u20u99b
PositionDocumented ==
  << "1", "0", "B",  "2", "4", "B",  "3", "4", "B",  "9", "9", "b",
     "1", "5", "R",  "2", "5", "R",  "3", "5", "R",  "9", "9", "r",
     "4", "5", "u",  "3", "1", "u",  "2", "1", "u",  "9", "9", "r",
     "4", "0", "u",  "3", "0", "u",  "2", "0", "u",  "9", "9", "b" >>

\* a late position: C and six of the opponent's pieces are captured, g and h
\* stand on cells 2 and 0
\* 01R11R99r44R15B25B35B45B99r99r99r99b99b99b20u00u
PositionLate ==
  << "0", "1", "R",  "1", "1", "R",  "9", "9", "r",  "4", "4", "R",
     "1", "5", "B",  "2", "5", "B",  "3", "5", "B",  "4", "5", "B",
     "9", "9", "r",  "9", "9", "r",  "9", "9", "r",  "9", "9", "b",
     "9", "9", "b",  "9", "9", "b",  "2", "0", "u",  "0", "0", "u" >>

(***************************************************************************)
(* A long-lived engine object, as the GST of MyAI.cpp is: positions are    *)
(* reloaded with set_board over whatever the object held, and do_move and  *)
(* undo are called whether or not the game has ended.                      *)
(***************************************************************************)
\* B and b step forward and back: four plies that restore the position
LineAdvance == <<16, 147, 19, 144>>
\* MAX_PLIES plies: A stands on the exit cell 0 with USER to move
LineToCap == LineCorners \o Repeat(LineAdvance, 247) \o <<16, 147>>
\* H captures a and the capture is undone, then A escapes and b moves on
LineStale == LineCorners \o <<114, UNDO, 1, 147>>

SessionStarts ==
  GameStarts \cup
  { Start({1, 2, 3, 4}, {9, 10, 11, 12}, LineToCap),
    Start({1, 2, 3, 4}, {9, 10, 11, 12}, LineStale),
    Start({1, 2, 3, 4}, {9, 10, 11, 12}, LineCorners \o <<1>>) }

ServerPositions == {PositionDocumented, PositionLate}

InitSession ==
  /\ game \in {g \in SessionStarts : g.fatal = ""}
  /\ snap = game
  /\ lastOp = NoOp
  /\ nops = 0
  /\ drawSeen = FALSE
  /\ SearchIdle
  /\ EvalIdle

\* game.set_board(position) (MyAI::Set_board)
SetBoard ==
  /\ game.fatal = ""
  /\ nops < MaxOps
  /\ \E position \in ServerPositions : game' = set_board(game, position)
  /\ lastOp' = [op |-> "set_board", move |-> -1, esc |-> FALSE, rt |-> FALSE,
                ret |-> FALSE, w |-> game.winner]
  /\ snap' = game
  /\ nops' = nops + 1
  /\ UNCHANGED <<evalVars, drawSeen, searchVars>>

NextSession == DoMove \/ Undo \/ IsOver \/ SetBoard

SpecSession == InitSession /\ [][NextSession]_vars

\* the same object without reloads: do_move, undo and is_over only
SpecReplay == InitSession /\ [][Next]_vars

(***************************************************************************)
(* The evaluator called on a game: init_data once, then patterns are       *)
(* looked up and the board weight is computed.                             *)
(***************************************************************************)
Offsets == {offset_1x4, offset_4x1, offset_2x2}

InitPatterns ==
  /\ game \in {g \in GameStarts : g.fatal = ""}
  /\ snap = game
  /\ lastOp = NoOp
  /\ nops = 0
  /\ drawSeen = FALSE
  /\ SearchIdle
  /\ d_trans = << >>
  /\ query \in [base_pos : Cells, offset : Offsets]
  /\ answer = NoAnswer
  /\ cbw = NoWeight
  /\ WEIGHT = << >>

\* data.init_data()
InitData ==
  /\ d_trans = << >>
  /\ d_trans' = init_data
  /\ UNCHANGED <<game, snap, gameVars, searchVars, query, answer, cbw, WEIGHT>>

\* is_valid_pattern(base_pos, offset) and, as get_weight does for a valid
\* pattern, trans[get_loc(base_pos, offset)]
PatternLookup ==
  /\ d_trans # << >> /\ ~answer.asked
  /\ answer' =
       IF is_valid_pattern(query.base_pos, query.offset)
         THEN [asked |-> TRUE, valid |-> TRUE,
               loc |-> get_loc(query.base_pos, query.offset),
               id |-> trans_at(d_trans, get_loc(query.base_pos, query.offset))]
         ELSE [asked |-> TRUE, valid |-> FALSE, loc |-> 0, id |-> 0]
  /\ UNCHANGED <<game, snap, gameVars, searchVars, d_trans, query, cbw, WEIGHT>>

\* game.compute_board_weight(data)
ComputeBoardWeight ==
  /\ d_trans # << >> /\ ~cbw.done
  /\ cbw' = compute_board_weight(game, d_trans)
  /\ UNCHANGED <<game, snap, gameVars, searchVars, d_trans, query, answer, WEIGHT>>

NextPatterns == InitData \/ PatternLookup \/ ComputeBoardWeight

SpecPatterns == InitPatterns /\ [][NextPatterns]_vars

(***************************************************************************)
(* Search trees (node.hpp).  A node is a record with the fields of class   *)
(* Node; a pointer is the node's index in tree, 0 is nullptr.              *)
(***************************************************************************)
NULL == 0
ROOT == 1

Node(move, parent) ==
  [move |-> move, wins |-> 0, visits |-> 0, avail_cnt |-> << >>,
   parent |-> parent, children |-> << >>]

\* node->children.push_back(new Node(move)) with newNode->parent = node
push_child(t, node, move) ==
  LET t1 == Append(t, Node(move, node))
  IN [t1 EXCEPT ![node].children = Append(@, Len(t1))]

(***************************************************************************)
(* UCB values.  The code computes them in double precision; here they are  *)
(* fixed-point numbers, in units of 1/10000, with floor rounding.          *)
(***************************************************************************)
EXPLORATION_PARAM_MILLI == 1414

\* std::log(n) in units of 10^-6, for the counts a bounded search reaches
LogMicro ==
  <<0, 693147, 1098612, 1386294, 1609438, 1791759, 1945910, 2079442,
    2197225, 2302585, 2397895, 2484907>>

RECURSIVE isqrt_between(_, _, _)
isqrt_between(x, lo, hi) ==
  IF lo >= hi THEN lo
  ELSE LET mid == (lo + hi + 1) \div 2
       IN IF mid * mid <= x THEN isqrt_between(x, mid, hi)
                            ELSE isqrt_between(x, lo, mid - 1)

\* floor of the square root, for 0 <= x < 2^30
isqrt(x) == isqrt_between(x, 0, 32767)

\* mean + EXPLORATION_PARAM * sqrt(log(n) / visits), visits >= 1, n >= 1
ucb_value(wins, visits, n) ==
  ((wins * 10000) \div visits)
    + ((EXPLORATION_PARAM_MILLI * isqrt((LogMicro[n] * 100) \div visits)) \div 1000)

\* the first index of seq whose score is greater than every score before it
\* and not less than any score after it (the loop "if (u > best) best = c")
RECURSIVE argmax_first(_, _, _, _)
argmax_first(score, k, best, n) ==
  IF k > n THEN best
  ELSE IF best = 0 \/ score[k] > score[best]
         THEN argmax_first(score, k + 1, k, n)
         ELSE argmax_first(score, k + 1, best, n)

(***************************************************************************)
(* MCTS (mcts.cpp)                                                         *)
(***************************************************************************)
\* the cell would_eat_enemy_red looks at
mcts_dst(state, move) == state.pos[PieceOf(move)] + dir_val[DirOf(move)]

\* MCTS::would_eat_enemy_red, for a destination on the board
would_eat_enemy_red(state, piece, dst) ==
  LET target_piece == state.piece_board[dst]
  IN IF target_piece = -1 THEN FALSE
     ELSE LET is_enemy == \/ (piece < PIECES /\ target_piece >= PIECES)
                          \/ (piece >= PIECES /\ target_piece < PIECES)
          IN is_enemy /\ Abs(state.color[target_piece]) = RED

\* the moves of gen_all_move whose destination is outside piece_board: the
\* read of piece_board[dst] is out of bounds, and the test may go either way
mcts_unbounded_moves(state) ==
  {m \in Range(gen_all_move(state)) : mcts_dst(state, m) \notin Cells}

\* MCTS::calculateUCB for a visited child
mcts_calculateUCB(t, c) ==
  ucb_value(t[c].wins, t[c].visits, t[t[c].parent].visits)

\* MCTS::selection; over is state.is_over(), which no step of it changes
RECURSIVE mcts_selection(_, _, _)
mcts_selection(t, node, over) ==
  LET ch == t[node].children
      unvisited == {k \in 1 .. Len(ch) : t[ch[k]].visits = 0}
  IN IF over \/ ch = << >> THEN node
     ELSE IF unvisited # {}
       THEN ch[CHOOSE k \in unvisited : \A j \in unvisited : k <= j]
       ELSE LET score == [k \in 1 .. Len(ch) |-> mcts_calculateUCB(t, ch[k])]
            IN mcts_selection(t, ch[argmax_first(score, 1, 0, Len(ch))], over)

\* MCTS::expansion: a child per move of the state, except the moves the
\* heuristic prunes; skipped is the set of out-of-bounds moves it pruned
RECURSIVE mcts_expand_from(_, _, _, _, _, _)
mcts_expand_from(t, node, state, moves, k, skipped) ==
  IF k > Len(moves) THEN t
  ELSE LET move == moves[k]
           dst == mcts_dst(state, move)
           prune == IF dst \in Cells
                      THEN would_eat_enemy_red(state, PieceOf(move), dst)
                      ELSE move \in skipped
           t1 == IF prune THEN t ELSE push_child(t, node, move)
       IN mcts_expand_from(t1, node, state, moves, k + 1, skipped)

mcts_expansion(t, node, state, skipped) ==
  IF is_over(state) THEN t
  ELSE mcts_expand_from(t, node, state, gen_all_move(state), 1, skipped)

\* The winner a rollout can end with.  From a finished state no move is
\* played and the winner is the one is_over records.  From any other state
\* the playout ends with is_over true (every step adds a ply, and the ply
\* cap is reached within the step limit): by a win of either side or by the
\* draw of the ply cap; which one depends on the random moves.
rollout_winners(state) ==
  IF is_over(state) THEN {is_over_winner(state)} ELSE {USER, ENEMY, DRAW}

\* the return statement of MCTS::simulation
mcts_value(winner) == IF winner = ENEMY THEN 1 ELSE -1

\* What MCTS::simulation can return.
mcts_simulation(state) == {mcts_value(w) : w \in rollout_winners(state)}

\* backpropagation without "result = -result"
RECURSIVE mcts_backpropagation_unflipped(_, _, _)
mcts_backpropagation_unflipped(t, node, res) ==
  IF node = NULL THEN t
  ELSE mcts_backpropagation_unflipped(
         [t EXCEPT ![node].visits = @ + 1, ![node].wins = @ + res], t[node].parent, res)

\* MCTS::backpropagation
RECURSIVE mcts_backpropagation(_, _, _)
mcts_backpropagation(t, node, res) ==
  IF node = NULL THEN t
  ELSE mcts_backpropagation([t EXCEPT ![node].visits = @ + 1, ![node].wins = @ + res],
                            t[node].parent, -res)

\* the last child of the root with the most visits (">=" in the loop)
best_child_last(t) ==
  LET ch == t[ROOT].children
  IN IF ch = << >> THEN NULL
     ELSE ch[CHOOSE k \in 1 .. Len(ch) :
               /\ \A j \in 1 .. Len(ch) : t[ch[j]].visits <= t[ch[k]].visits
               /\ \A j \in (k + 1) .. Len(ch) : t[ch[j]].visits < t[ch[k]].visits]

\* the robust child: the first child of the root with the most visits
best_child(t) ==
  LET ch == t[ROOT].children
  IN IF ch = << >> THEN NULL
     ELSE ch[argmax_first([k \in 1 .. Len(ch) |-> t[ch[k]].visits], 1, 0, Len(ch))]

(***************************************************************************)
(* ISMCTS (ismcts.cpp)                                                     *)
(***************************************************************************)
\* the pieces PIECES .. 2*PIECES-1 that are not revealed, in index order
unrevealed_pieces(state) ==
  SelectSeq([k \in 1 .. PIECES |-> PIECES + k - 1], LAMBDA p : ~state.revealed[p])

redCount(state) ==
  Cardinality({p \in PIECES .. (2 * PIECES - 1) :
                 state.revealed[p] /\ state.color[p] = -RED})

blueCount(state) ==
  Cardinality({p \in PIECES .. (2 * PIECES - 1) :
                 state.revealed[p] /\ state.color[p] # -RED})

use_stats(current_iteration, sims) == current_iteration >= sims \div 2

\* state.set_color(unrevealed[k], arrangement[k]) for every k
apply_arrangement(state, unrevealed, arrangement) ==
  [state EXCEPT !.color =
     [p \in PieceIds |->
        IF \E k \in 1 .. Len(unrevealed) : unrevealed[k] = p
          THEN arrangement[CHOOSE k \in 1 .. Len(unrevealed) : unrevealed[k] = p]
          ELSE @[p]]]

\* Strategy A with an off-by-one test, i <= redRemaining
shuffle_arrangements_one_more(n, redRemaining) ==
  {a \in [1 .. n -> {-RED, -BLUE}] :
     Cardinality({k \in 1 .. n : a[k] = -RED}) =
       (IF redRemaining + 1 > n THEN n ELSE redRemaining + 1)}

\* Strategy A: after the shuffle the first redRemaining places are RED, so
\* the outcome is any choice of that many pieces (all of them when the
\* count, compared as size_t, is negative or exceeds the number of places)
shuffle_arrangements(n, redRemaining) ==
  {a \in [1 .. n -> {-RED, -BLUE}] :
     Cardinality({k \in 1 .. n : a[k] = -RED}) =
       (IF redRemaining < 0 \/ redRemaining > n THEN n ELSE redRemaining)}

\* Strategy B: bit k of mask (k from 0) decides the colour of place k
mask_bit(mask, k) == (mask \div (2 ^ k)) % 2

mask_arrangement(mask, total_pieces) ==
  [k \in 1 .. total_pieces |-> IF mask_bit(mask, k - 1) = 1 THEN -RED ELSE -BLUE]

\* the arrangements with the remaining counts, in mask order
weighted_arrangements(redRemaining, blueRemaining) ==
  LET total_pieces == redRemaining + blueRemaining
      ok(mask) == Cardinality({k \in 0 .. (total_pieces - 1) : mask_bit(mask, k) = 1})
                    = redRemaining
  IN IF redRemaining < 0 \/ blueRemaining < 0 THEN << >>
     ELSE SelectSeq([m \in 1 .. (2 ^ total_pieces) |-> m - 1], ok)

\* the key string of an arrangement, one character per place
key_of(arrangement) ==
  [k \in 1 .. Len(arrangement) |-> IF arrangement[k] = -RED THEN "R" ELSE "B"]

\* 1.0 - rate + 0.05 in units of 1/100 (0.5 for an arrangement with no data)
arrangement_weight(stats, key) ==
  IF key \notin DOMAIN stats \/ stats[key][2] = 0 THEN 55
  ELSE 105 - ((100 * stats[key][1]) \div stats[key][2])

\* ISMCTS::randomizeUnrevealedPieces: the states it can leave
randomizeUnrevealedPieces(state, current_iteration, sims, stats) ==
  LET unrevealed == unrevealed_pieces(state)
      redRemaining == 4 - redCount(state)
      blueRemaining == 4 - blueCount(state)
  IN IF unrevealed = << >> THEN {state}
     ELSE IF ~use_stats(current_iteration, sims)
       THEN {apply_arrangement(state, unrevealed, a) :
               a \in shuffle_arrangements(Len(unrevealed), redRemaining)}
       ELSE LET masks == weighted_arrangements(redRemaining, blueRemaining)
                total_pieces == redRemaining + blueRemaining
                arr(k) == mask_arrangement(masks[k], total_pieces)
                \* r <= cumulative is first true at an index of positive weight;
                \* index 0 stays selected when it is true nowhere
                selectable == {k \in 1 .. Len(masks) :
                                 k = 1 \/ arrangement_weight(stats, key_of(arr(k))) > 0}
            IN IF masks = << >> \/ total_pieces < Len(unrevealed)
                 THEN {[state EXCEPT !.fatal = "undefined"]}
                 ELSE {apply_arrangement(state, unrevealed,
                                         SubSeq(arr(k), 1, Len(unrevealed))) :
                         k \in selectable}

\* ISMCTS::getDeterminizedState
getDeterminizedState(originalState, current_iteration, sims, stats) ==
  randomizeUnrevealedPieces(originalState, current_iteration, sims, stats)

\* ISMCTS::calculateUCB for a visited node
ismcts_calculateUCB(t, c) ==
  LET m == t[t[c].parent].avail_cnt
      avail == IF t[c].parent # NULL /\ t[c].move \in DOMAIN m THEN m[t[c].move] ELSE 1
  IN ucb_value(t[c].wins, t[c].visits, avail)

\* an entry is created for every move of the list and counted no further
bump_avail_once(cnt, moves) == [m \in DOMAIN cnt \cup Range(moves) |-> 1]

\* node->avail_cnt[moves[i]]++ for every move of the list
bump_avail(cnt, moves) ==
  [m \in DOMAIN cnt \cup Range(moves) |->
     (IF m \in DOMAIN cnt THEN cnt[m] ELSE 0)
       + Cardinality({k \in 1 .. Len(moves) : moves[k] = m})]

\* selection without the filter: every child is a candidate
compatible_children_all(t, node, moves) == t[node].children

\* the children of the node selection considers: those whose move is in the
\* move list of the determinized state
compatible_children(t, node, moves) ==
  SelectSeq(t[node].children, LAMBDA c : t[c].move \in Range(moves))

\* the search for a child with the move never finds one
has_child_never(t, node, move) == FALSE

has_child(t, node, move) ==
  \E k \in 1 .. Len(t[node].children) : t[t[node].children[k]].move = move

\* ISMCTS::expansion with the test of "used" inverted
expansion_moves_used(t, node, d) ==
  IF is_over(d) THEN << >>
  ELSE SelectSeq(gen_all_move(d), LAMBDA m : has_child(t, node, m))

\* ISMCTS::expansion: the moves of the determinized state without a child
expansion_moves(t, node, d) ==
  IF is_over(d) THEN << >>
  ELSE SelectSeq(gen_all_move(d), LAMBDA m : ~has_child(t, node, m))

\* the test of findBestMove before it calls expansion
expansion_allowed(d) == ~is_over(d)

\* the moves one pass of the rollout loop can play: a random entry of the
\* move list, or for USER the entry highest_weight returns
rollout_moves(state) == Range(gen_all_move(state))

\* the return statement of ISMCTS::simulation
ismcts_value(winner, rootPlayer) == IF winner = rootPlayer THEN 1 ELSE -1

\* What ISMCTS::simulation can return (see mcts_simulation): the playout
\* stops at a finished state within its 200 steps, so 0.0 is not returned.
ismcts_simulation(state, rootPlayer) ==
  {ismcts_value(w, rootPlayer) : w \in rollout_winners(state)}

\* the key built from the highest piece id down
arrangementKey_descending(g, d) ==
  LET u == unrevealed_pieces(g)
  IN [k \in 1 .. Len(u) |-> IF d.color[u[Len(u) + 1 - k]] = -RED THEN "R" ELSE "B"]

\* the key findBestMove builds from the determinized colours of the pieces
\* that are unrevealed in the caller's game
arrangementKey(g, d) ==
  LET u == unrevealed_pieces(g)
  IN [k \in 1 .. Len(u) |-> IF d.color[u[k]] = -RED THEN "R" ELSE "B"]

\* stats.first += 1 when result > 0; stats.second += 1
record_arrangement(stats, key, res) ==
  LET old == IF key \in DOMAIN stats THEN stats[key] ELSE <<0, 0>>
      new == <<old[1] + (IF res > 0 THEN 1 ELSE 0), old[2] + 1>>
  IN [k \in DOMAIN stats \cup {key} |-> IF k = key THEN new ELSE stats[k]]

\* backpropagation with the sign flipped at every level, as MCTS does it
ismcts_backpropagation_flipped(t, node, res) == mcts_backpropagation(t, node, res)

\* ISMCTS::backpropagation
RECURSIVE ismcts_backpropagation(_, _, _)
ismcts_backpropagation(t, node, res) ==
  IF node = NULL THEN t
  ELSE ismcts_backpropagation([t EXCEPT ![node].visits = @ + 1, ![node].wins = @ + res],
                              t[node].parent, res)

(***************************************************************************)
(* findBestMove, one action per stage.  An engine built with a simulation  *)
(* budget is called once on the caller's game.                             *)
(***************************************************************************)
\* largest simulation budget of the engines built for the light positions
MaxSims == 3
\* number of rollout moves that are followed one by one
MaxRollout == 1

RootOpening == Start({0, 1, 2, 3}, {8, 9, 10, 11}, << >>)
\* ENEMY to move, its RED piece a on the exit cell 35
RootExitCell == Start({1, 2, 3, 4}, {8, 9, 10, 11}, LineCorners \o <<16>>)
\* ENEMY to move, each of its three moves captures a RED piece
RootCornered == Start({0, 1, 2, 3}, {8, 9, 10, 15}, LineCornered)
\* the last RED piece of USER has just been captured; is_over not yet called
RootCaptured == PlayOne(Start({0, 1, 2, 3}, {12, 13, 14, 15}, LineCapture), 161)
\* A has just left the board through cell 0
RootEscaped == PlayOne(Start({1, 2, 3, 4}, {9, 10, 11, 12}, LineCorners), 1)
\* the 200th ply has just been played; is_over not yet called
RootPlyCap ==
  PlayOne(Start({4, 5, 6, 7}, {12, 13, 14, 15}, LineCapture \o Repeat(LineShuffle, 46)), 241)
\* one ply before the cap: ENEMY to move at n_plies = 199
RootNearCap ==
  Start({4, 5, 6, 7}, {12, 13, 14, 15}, LineCapture \o Repeat(LineShuffle, 46))
\* D walks up the right column, capturing a and e, to the exit cell 5; d steps
\* to cell 6
LineEscapeWrap == <<48, 177, 48, 241, 48, 242, 48, 241, 50, 242>>
\* USER to move: the BLUE piece D on cell 5 can escape East, the RED piece d
\* stands on cell 6, the first cell of the next row
RootEscapeWrap == Start({0, 1, 2, 4}, {11, 13, 14, 15}, LineEscapeWrap)
\* twelve captures leave d, h against D, E, one RED and one BLUE piece a side
LineEndgame ==
  <<50, 130, 51, 131, 112, 129, 16, 241, 33, 176, 98, 195, 16, 163, 82, 147, 34, 211,
    32, 147, 48, 163, 112, 146, 51, 208, 1, 210, 0, 146, 64, 193, 67, 161, 2, 179, 1,
    177, 81, 130, 0, 179, 80, 128, 66, 210, 80, 194, 82, 131, 80, 176, 81, 226, 82,
    145, 83, 145, 96, 227, 96, 146, 66, 209, 65, 194, 48, 242, 65, 192, 51, 176, 48,
    128, 65, 147, 49, 243, 48, 226, 49, 225, 48, 211, 48, 193, 50, 128, 48, 241, 50>>
\* ENEMY to move with three moves; every reply of USER has at most five
RootEndgame == Start({0, 1, 2, 3}, {8, 9, 10, 11}, LineEndgame)
\* the same endgame after d East: USER to move
RootEndgameReply == Start({0, 1, 2, 3}, {8, 9, 10, 11}, LineEndgame \o <<178>>)
\* d and h walk to the cells 35 and 34, D and E to the cells 33 and 0
LineExitPair ==
  <<178, 51, 179, 48, 179, 51, 179, 48, 179, 51, 179, 48, 178, 51, 178, 51, 178, 51,
    178, 51, 243, 49, 243, 51, 243, 49, 242, 64, 242, 64, 242, 64, 242, 64, 243, 64>>
\* ENEMY to move with d, a hidden RED piece, on its exit cell 35 and h on 34:
\* d North, h North, the capture h West that ends the game, and the escape
\* d East in the determinizations that make d BLUE
RootExitPair == Start({0, 1, 2, 3}, {8, 9, 10, 11}, LineEndgame \o LineExitPair)
\* positions the server sent
RootServer == set_board(zero_gst, PositionDocumented)
RootServerLate == set_board(zero_gst, PositionLate)

\* the engines built and the games they are called on; only the positions
\* with few hidden pieces and few moves get the larger budgets
SearchStarts ==
  {[g |-> RootCornered, engine |-> e, sims |-> n] :
     e \in {"MCTS", "ISMCTS"}, n \in 1 .. MaxSims}
  \cup {[g |-> g, engine |-> "MCTS", sims |-> n] :
          g \in {RootCaptured, RootEscaped, RootPlyCap}, n \in 1 .. MaxSims}
  \cup {[g |-> g, engine |-> "MCTS", sims |-> n] :
          g \in {RootOpening, RootExitCell}, n \in 1 .. 2}
  \cup {[g |-> g, engine |-> "ISMCTS", sims |-> 1] :
          g \in {RootOpening, RootExitCell, RootServer,
                 RootCaptured, RootEscaped, RootPlyCap}}
  \cup {[g |-> RootServerLate, engine |-> "ISMCTS", sims |-> n] : n \in 1 .. 2}
  \cup {[g |-> RootEndgame, engine |-> e, sims |-> n] :
          e \in {"MCTS", "ISMCTS"}, n \in 1 .. MaxSims + 1}
  \cup {[g |-> RootNearCap, engine |-> e, sims |-> 1] : e \in {"MCTS", "ISMCTS"}}
  \cup {[g |-> RootEscapeWrap, engine |-> "MCTS", sims |-> 1]}

InitSearch ==
  /\ \E s \in {x \in SearchStarts : x.g.fatal = ""} :
       /\ game = s.g
       /\ engine = s.engine
       /\ simulations = s.sims
  /\ snap = game
  /\ lastOp = NoOp /\ nops = 0 /\ drawSeen = FALSE
  /\ iter = 0 /\ pc = "call" /\ tree = << >> /\ currentNode = NULL
  /\ det = zero_gst /\ result = 0 /\ arrangement_stats = << >>
  /\ root_player = USER /\ ret = -1
  /\ nodeToSimulate = NULL /\ simulationState = zero_gst /\ simWinner = NO_WINNER
  /\ simState = zero_gst /\ step = 0 /\ policy = "none"
  /\ EvalIdle

\* the head of the loop "for (i = 0; i < simulations; i++)"
LoopHead(i, first) == IF i < simulations THEN first ELSE "best"

\* MCTS::findBestMove up to the loop: a new tree with a root
MCall ==
  /\ pc = "call" /\ engine = "MCTS"
  /\ tree' = <<Node(-1, NULL)>>
  /\ iter' = 0
  /\ currentNode' = ROOT
  /\ pc' = LoopHead(0, "select")
  /\ UNCHANGED <<evalVars, rolloutVars, game, snap, gameVars, engine, simulations, det, result,
                 arrangement_stats, root_player, ret>>

\* Stage 1: selection(currentNode, game); is_over is called on the caller's game
MSelect ==
  /\ pc = "select" /\ engine = "MCTS"
  /\ currentNode' = mcts_selection(tree, ROOT, is_over(game))
  /\ game' = is_over_state(game)
  /\ pc' = "expand"
  /\ UNCHANGED <<evalVars, rolloutVars, snap, gameVars, engine, simulations, iter, tree, det, result,
                 arrangement_stats, root_player, ret>>

\* Stage 2: expansion(currentNode, game) when the node is a leaf and the game
\* is not over
MExpand ==
  /\ pc = "expand" /\ engine = "MCTS"
  /\ IF tree[currentNode].children = << >> /\ ~is_over(game)
       THEN \E skipped \in SUBSET mcts_unbounded_moves(game) :
              tree' = mcts_expansion(tree, currentNode, game, skipped)
       ELSE tree' = tree
  /\ game' = IF tree[currentNode].children = << >> THEN is_over_state(game) ELSE game
  /\ pc' = "simulate"
  /\ UNCHANGED <<evalVars, rolloutVars, snap, gameVars, engine, simulations, iter, currentNode, det,
                 result, arrangement_stats, root_player, ret>>

\* Stages 3 and 4: a random child of currentNode (the node itself when it has
\* none), a rollout from the caller's game after that node's move, and
\* backpropagation
MSimulate ==
  /\ pc = "simulate" /\ engine = "MCTS"
  /\ LET ch == tree[currentNode].children
         picks == IF ch = << >> THEN {currentNode} ELSE Range(ch)
     IN \E n \in picks :
          LET st == IF tree[n].move # -1 THEN do_move(game, tree[n].move) ELSE game
          IN \E w \in rollout_winners(st) :
               /\ nodeToSimulate' = n
               /\ simulationState' = st
               /\ simWinner' = w
               /\ result' = mcts_value(w)
               /\ result' \in mcts_simulation(st)
               /\ tree' = mcts_backpropagation(tree, n, mcts_value(w))
  /\ iter' = iter + 1
  /\ pc' = LoopHead(iter + 1, "select")
  /\ UNCHANGED <<evalVars, simState, step, policy, game, snap, gameVars, engine, simulations, currentNode, det,
                 arrangement_stats, root_player, ret>>

\* the robust child of the root, or -1 when the root has no child
MBest ==
  /\ pc = "best" /\ engine = "MCTS"
  /\ ret' = IF best_child(tree) = NULL THEN -1 ELSE tree[best_child(tree)].move
  /\ pc' = "done"
  /\ UNCHANGED <<evalVars, rolloutVars, game, snap, gameVars, engine, simulations, iter, tree, currentNode,
                 det, result, arrangement_stats, root_player>>

\* the call without Node::cleanup(root) and root.reset(new Node()): the tree
\* of an earlier call is kept
ICall_keeping_tree ==
  /\ pc = "call" /\ engine = "ISMCTS"
  /\ tree' = IF tree = << >> THEN <<Node(-1, NULL)>> ELSE tree
  /\ arrangement_stats' = << >>
  /\ root_player' = game.nowTurn
  /\ iter' = 0
  /\ currentNode' = ROOT
  /\ pc' = LoopHead(0, "determinize")
  /\ UNCHANGED <<evalVars, rolloutVars, game, snap, gameVars, engine, simulations, det, result, ret>>

\* ISMCTS::findBestMove up to the loop: a new tree, no statistics, and the
\* side to move remembered as root_player
ICall ==
  /\ pc = "call" /\ engine = "ISMCTS"
  /\ tree' = <<Node(-1, NULL)>>
  /\ arrangement_stats' = << >>
  /\ root_player' = game.nowTurn
  /\ iter' = 0
  /\ currentNode' = ROOT
  /\ pc' = LoopHead(0, "determinize")
  /\ UNCHANGED <<evalVars, rolloutVars, game, snap, gameVars, engine, simulations, det, result, ret>>

\* Step A: currentNode = root, determinizedState = getDeterminizedState(game, i)
IDeterminize ==
  /\ pc = "determinize" /\ engine = "ISMCTS"
  /\ det' \in getDeterminizedState(game, iter, simulations, arrangement_stats)
  /\ currentNode' = ROOT
  /\ pc' = "select"
  /\ UNCHANGED <<evalVars, rolloutVars, game, snap, gameVars, engine, simulations, iter, tree, result,
                 arrangement_stats, root_player, ret>>

\* Step B: one pass of the loop of selection(currentNode, determinizedState)
ISelect ==
  /\ pc = "select" /\ engine = "ISMCTS" /\ det.fatal = ""
  /\ LET d == is_over_state(det)
         moves == gen_all_move(d)
         t1 == [tree EXCEPT ![currentNode].avail_cnt = bump_avail(@, moves)]
         kids == tree[currentNode].children
         fully == \A k \in 1 .. Len(moves) : has_child(tree, currentNode, moves[k])
         cand == compatible_children(tree, currentNode, moves)
         unvisited == SelectSeq(cand, LAMBDA c : tree[c].visits = 0)
         score == [k \in 1 .. Len(cand) |-> ismcts_calculateUCB(t1, cand[k])]
     IN IF is_over(det) \/ moves = << >>
          THEN /\ det' = d
               /\ pc' = "expand"
               /\ UNCHANGED <<evalVars, tree, currentNode>>
          ELSE IF ~fully \/ cand = << >>
            THEN /\ det' = d
                 /\ tree' = t1
                 /\ pc' = "expand"
                 /\ UNCHANGED currentNode
            ELSE \E next \in (IF unvisited # << >>
                                THEN Range(unvisited)
                                ELSE {cand[argmax_first(score, 1, 0, Len(cand))]}) :
                   /\ currentNode' = next
                   /\ det' = do_move(d, tree[next].move)
                   /\ tree' = t1
                   /\ pc' = "select"
  /\ UNCHANGED <<evalVars, rolloutVars, game, snap, gameVars, engine, simulations, iter, result,
                 arrangement_stats, root_player, ret>>

\* Step C: one new child for a random move of the determinized state that
\* has none, and that move played on the determinized state
IExpand ==
  /\ pc = "expand" /\ engine = "ISMCTS" /\ det.fatal = ""
  /\ LET U == IF expansion_allowed(det) THEN expansion_moves(tree, currentNode, det)
                                        ELSE << >>
     IN IF U = << >>
          THEN /\ det' = is_over_state(det)
               /\ UNCHANGED <<evalVars, tree, currentNode>>
          ELSE \E k \in 1 .. Len(U) :
                 /\ tree' = push_child(tree, currentNode, U[k])
                 /\ currentNode' = Len(tree) + 1
                 /\ det' = do_move(is_over_state(det), U[k])
  /\ pc' = "simulate"
  /\ UNCHANGED <<evalVars, rolloutVars, game, snap, gameVars, engine, simulations, iter, result,
                 arrangement_stats, root_player, ret>>

\* the state the rollout has reached: the determinized state before its
\* first move, simState afterwards
rollout_state == IF step = 0 THEN det ELSE simState

\* the rollout moves that are followed one by one: two more in a call with
\* a budget of one iteration, whose tree is a single expansion
followed == IF simulations = 1 THEN MaxRollout + 2 ELSE MaxRollout

\* the ways simulation can choose the move of the side to move: "random" is
\* moves[pick(rng)], "greedy" is highest_weight.  epsilon is
\* max(0.1, 1 - step / 200) and probDist(rng) is below 1, so the first move
\* is always random
rollout_policies(state, n) ==
  IF state.nowTurn = USER /\ n > 0 THEN {"random", "greedy"} ELSE {"random"}

\* the state the move is played on: highest_weight works on simState itself
policy_state(state, pol) ==
  IF pol = "greedy" THEN highest_weight_state(state) ELSE state

\* Step D, one pass of the loop of simulation while fewer than followed
\* moves have been played: a move of the list is played on simState
IRolloutStep ==
  /\ pc = "simulate" /\ engine = "ISMCTS" /\ det.fatal = ""
  /\ step < followed
  /\ rollout_state.fatal = "" /\ ~is_over(rollout_state)
  /\ \E pol \in rollout_policies(rollout_state, step) :
       /\ policy' = pol
       /\ \E st \in {policy_state(rollout_state, pol)} :
            \E move \in rollout_moves(rollout_state) : simState' = do_move(st, move)
  /\ step' = step + 1
  /\ UNCHANGED <<evalVars, game, snap, gameVars, engine, simulations, iter, pc, tree,
                 currentNode, det, result, arrangement_stats, root_player, ret,
                 nodeToSimulate, simulationState, simWinner>>

\* Steps D, E and F: the rest of the rollout, the statistics of the
\* arrangement, and backpropagation from currentNode
ISimulate ==
  /\ pc = "simulate" /\ engine = "ISMCTS" /\ det.fatal = ""
  /\ rollout_state.fatal = ""
  /\ \E w \in rollout_winners(rollout_state) :
       LET res == ismcts_value(w, root_player)
       IN /\ simWinner' = w
          /\ result' = res
          /\ result' \in ismcts_simulation(rollout_state, root_player)
          /\ simState' = zero_gst /\ step' = 0 /\ policy' = "none"
          /\ arrangement_stats' =
               record_arrangement(arrangement_stats, arrangementKey(game, det), res)
          /\ tree' = ismcts_backpropagation(tree, currentNode, res)
  /\ iter' = iter + 1
  /\ pc' = LoopHead(iter + 1, "determinize")
  /\ UNCHANGED <<evalVars, nodeToSimulate, simulationState, game, snap, gameVars, engine, simulations, currentNode, det,
                 root_player, ret>>

\* the child of the root with the most visits, or -1 when it has no child
IBest ==
  /\ pc = "best" /\ engine = "ISMCTS"
  /\ ret' = IF best_child(tree) = NULL THEN -1 ELSE tree[best_child(tree)].move
  /\ pc' = "done"
  /\ UNCHANGED <<evalVars, rolloutVars, game, snap, gameVars, engine, simulations, iter, tree, currentNode,
                 det, result, arrangement_stats, root_player>>

\* MyAI::Generate_move after ismcts.findBestMove has returned best_move: the
\* move is formatted and applied to the global game
Generate_move ==
  /\ pc = "done" /\ engine = "ISMCTS"
  /\ game' = do_move(game, ret)
  /\ snap' = game
  /\ lastOp' = [op |-> "do_move", move |-> ret, esc |-> FALSE, rt |-> FALSE,
                ret |-> FALSE, w |-> game.winner]
  /\ nops' = nops + 1
  /\ pc' = "applied"
  /\ UNCHANGED <<evalVars, rolloutVars, drawSeen, engine, simulations, iter, tree, currentNode, det, result,
                 arrangement_stats, root_player, ret>>

NextSearch ==
  \/ MCall \/ MSelect \/ MExpand \/ MSimulate \/ MBest
  \/ ICall \/ IDeterminize \/ ISelect \/ IExpand \/ ISimulate \/ IBest
  \/ Generate_move

SpecSearch == InitSearch /\ [][NextSearch]_vars

(***************************************************************************)
(* The same engine instance called again.  MyAI keeps one global ISMCTS    *)
(* and calls findBestMove on it for every move; root and arrangement_stats *)
(* are members and outlive the call, the other variables are locals.       *)
(***************************************************************************)
RecallStarts ==
  {[g |-> g, engine |-> e, sims |-> n] :
     g \in {RootEndgame, RootCornered}, e \in {"MCTS", "ISMCTS"}, n \in 1 .. 2}
  \cup {[g |-> RootCaptured, engine |-> e, sims |-> 1] : e \in {"MCTS", "ISMCTS"}}

InitRecall ==
  /\ \E s \in {x \in RecallStarts : x.g.fatal = ""} :
       /\ game = s.g
       /\ engine = s.engine
       /\ simulations = s.sims
  /\ snap = game
  /\ lastOp = NoOp /\ nops = 0 /\ drawSeen = FALSE
  /\ iter = 0 /\ pc = "call" /\ tree = << >> /\ currentNode = NULL
  /\ det = zero_gst /\ result = 0 /\ arrangement_stats = << >>
  /\ root_player = USER /\ ret = -1
  /\ nodeToSimulate = NULL /\ simulationState = zero_gst /\ simWinner = NO_WINNER
  /\ simState = zero_gst /\ step = 0 /\ policy = "none"
  /\ EvalIdle

\* findBestMove has returned and the caller calls it again on the same game:
\* the tree and the statistics of the engine are as the call has left them,
\* ret is the caller's best_move
Recall ==
  /\ pc = "done"
  /\ pc' = "call"
  /\ currentNode' = NULL /\ det' = zero_gst /\ result' = 0
  /\ nodeToSimulate' = NULL /\ simulationState' = zero_gst /\ simWinner' = NO_WINNER
  /\ UNCHANGED <<evalVars, simState, step, policy, game, snap, gameVars, engine, simulations,
                 iter, tree, arrangement_stats, root_player, ret>>

NextRecall == NextSearch \/ Recall

SpecRecall == InitRecall /\ [][NextRecall]_vars

\* ISMCTS::findBestMove with the first moves of every rollout played one by
\* one, on the positions of the endgame with two pieces a side
RolloutStarts ==
  {[g |-> g, engine |-> "ISMCTS", sims |-> 1] : g \in {RootEndgame, RootEndgameReply}}
  \cup {[g |-> RootEndgame, engine |-> "ISMCTS", sims |-> 2]}
  \cup {[g |-> RootExitPair, engine |-> "ISMCTS", sims |-> 5]}

InitRollout ==
  /\ \E s \in {x \in RolloutStarts : x.g.fatal = ""} :
       /\ game = s.g
       /\ engine = s.engine
       /\ simulations = s.sims
  /\ snap = game
  /\ lastOp = NoOp /\ nops = 0 /\ drawSeen = FALSE
  /\ iter = 0 /\ pc = "call" /\ tree = << >> /\ currentNode = NULL
  /\ det = zero_gst /\ result = 0 /\ arrangement_stats = << >>
  /\ root_player = USER /\ ret = -1
  /\ nodeToSimulate = NULL /\ simulationState = zero_gst /\ simWinner = NO_WINNER
  /\ simState = zero_gst /\ step = 0 /\ policy = "none"
  /\ EvalIdle

NextRollout ==
  \/ ICall \/ IDeterminize \/ ISelect \/ IExpand \/ IRolloutStep \/ ISimulate \/ IBest

SpecRollout == InitRollout /\ [][NextRollout]_vars

(***************************************************************************)
(* The greedy policy called on a game: highest_weight, followed by the     *)
(* calls a rollout makes on the same state.                                *)
(***************************************************************************)
\* E walks to cell 1 next to d on cell 0, h steps to cell 7 below E
LineBesideCorner == <<178, 64, 179, 64, 176, 64, 179, 66, 176, 64, 177, 64, 242>>
\* E walks to its exit cell 0, h to cell 1 and D to cell 2
LineOnCorner ==
  <<178, 49, 179, 49, 176, 49, 179, 64, 176, 64, 179, 64, 240, 64, 242, 64, 179>>
\* h walks to its exit cell 35, E to cell 34
LineEnemyCorner ==
  <<243, 51, 243, 48, 243, 51, 242, 48, 243, 51, 242, 66, 242, 66, 242, 66, 242, 66>>
\* E walks to cell 4, D to cell 10 and h to cell 11
LineBesideExit ==
  <<178, 51, 179, 49, 176, 64, 179, 64, 176, 64, 242, 64, 243, 66, 242, 66, 242, 64,
    242, 66, 242, 66, 240>>

\* the endgame of RootEndgame continued: one RED and one BLUE piece a side
GreedyLines == {<<>>, <<178>>, LineBesideCorner, LineOnCorner, LineEnemyCorner, LineBesideExit}

GreedyStarts ==
  {Start({0, 1, 2, 3}, {8, 9, 10, 11}, LineEndgame \o line) : line \in GreedyLines}

InitGreedy ==
  /\ game \in {g \in GreedyStarts : g.fatal = ""}
  /\ snap = game
  /\ lastOp = NoOp
  /\ nops = 0
  /\ drawSeen = FALSE
  /\ SearchIdle
  /\ d_trans = init_data
  /\ query = [base_pos |-> 0, offset |-> offset_1x4]
  /\ answer = NoAnswer /\ cbw = NoWeight /\ WEIGHT = << >>

\* game.highest_weight(data) on a game that is not over and has a move
HighestWeight ==
  /\ game.fatal = "" /\ ~is_over(game)
  /\ nops < MaxOps
  /\ gen_all_move(game) # << >>
  /\ \E r \in {highest_weight(game, d_trans)} :
       /\ game' = r.state
       /\ WEIGHT' = r.WEIGHT
       /\ \E k \in 1 .. Len(r.WEIGHT) :
            lastOp' = [op |-> "highest_weight", move |-> r.WEIGHT[k].move, esc |-> FALSE,
                       rt |-> FALSE, ret |-> FALSE, w |-> game.winner]
  /\ snap' = game
  /\ nops' = nops + 1
  /\ UNCHANGED <<drawSeen, searchVars, d_trans, query, answer, cbw>>

NextGreedy == HighestWeight \/ DoMove \/ Undo \/ IsOver

SpecGreedy == InitGreedy /\ [][NextGreedy]_vars

(***************************************************************************)
(* Properties of the game state engine                                     *)
(***************************************************************************)
SameFields(a, b) ==
  /\ a.board = b.board
  /\ a.piece_board = b.piece_board
  /\ a.pos = b.pos
  /\ a.color = b.color
  /\ a.piece_nums = b.piece_nums
  /\ a.revealed = b.revealed
  /\ a.nowTurn = b.nowTurn
  /\ a.winner = b.winner
  /\ a.is_escape = b.is_escape
  /\ a.n_plies = b.n_plies

\* C1: do_move of a legal non-escape move followed by undo gives back the
\* state before the move in every field (board, piece_board, pos, color,
\* piece_nums, revealed, nowTurn, winner, is_escape, n_plies).
C1_RoundTrip ==
  (lastOp.op = "undo" /\ lastOp.rt /\ ~lastOp.esc /\ game.fatal = "")
    => SameFields(game, snap)

OwnPiece(g, p) == IF g.nowTurn = USER THEN p < PIECES ELSE p >= PIECES
OwnCell(g, c) == IF g.nowTurn = USER THEN g.board[c] > 0 ELSE g.board[c] < 0

\* the move leaves its source cell for the orthogonal neighbour on the board
StaysOnBoard(g, m) ==
  LET loc == g.pos[PieceOf(m)]
      d == DirOf(m)
  IN /\ loc \in Cells
     /\ d \in 0 .. 3
     /\ (d = 0 => loc \div COL # 0)
     /\ (d = 3 => loc \div COL # ROW - 1)
     /\ (d = 1 => loc % COL # 0)
     /\ (d = 2 => loc % COL # COL - 1)
     /\ loc + dir_val[d] \in Cells

\* C2: every non-escape move of gen_all_move belongs to a piece of the side
\* to move that is still on the board, goes to the orthogonal neighbour
\* inside the 6x6 board without wrapping around a row or column, and does
\* not land on a piece of the side to move.
C2_Legality ==
  game.fatal = "" =>
    \A m \in Range(gen_all_move(game)) \ escape_from(game, 0) :
      /\ OwnPiece(game, PieceOf(m))
      /\ game.pos[PieceOf(m)] # -1
      /\ StaysOnBoard(game, m)
      /\ ~OwnCell(game, game.pos[PieceOf(m)] + dir_val[DirOf(m)])

\* a move has been played and the side to move has a piece on the left or
\* right edge and a capture among its moves
C2_Witness ==
  /\ lastOp.op = "do_move"
  /\ game.fatal = ""
  /\ \E p \in PieceIds : OwnPiece(game, p) /\ game.pos[p] # -1 /\ game.pos[p] % COL \in {0, COL - 1}
  /\ \E m \in Range(gen_all_move(game)) \ escape_from(game, 0) :
       game.board[game.pos[PieceOf(m)] + dir_val[DirOf(m)]] # 0

\* do_move treats the move as an escape win: winner and flag set, nothing moved
ResolvedAsEscape(g, m) ==
  LET h == do_move(g, m)
  IN /\ h.is_escape
     /\ h.winner = g.nowTurn
     /\ h.n_plies = g.n_plies + 1
     /\ h.pos = g.pos

ExitMove(g, m) ==
  LET loc == g.pos[PieceOf(m)]
      d == DirOf(m)
  IN IF g.nowTurn = USER
       THEN g.color[PieceOf(m)] = BLUE /\ ((loc = 0 /\ d = 1) \/ (loc = 5 /\ d = 2))
       ELSE g.color[PieceOf(m)] = -BLUE /\ ((loc = 30 /\ d = 1) \/ (loc = 35 /\ d = 2))

\* C3: gen_all_move emits an escape move only for a BLUE piece of the side
\* to move on one of that side's two exit cells (USER: 0 going W, 5 going E;
\* ENEMY: 30 going W, 35 going E), and the legal moves do_move resolves as an
\* escape win are exactly the emitted escape moves.
C3_EscapeEligibility ==
  game.fatal = "" =>
    /\ \A m \in escape_from(game, 0) : OwnPiece(game, PieceOf(m)) /\ ExitMove(game, m)
    /\ {m \in Range(gen_all_move(game)) : ResolvedAsEscape(game, m)} = escape_from(game, 0)

\* an emitted escape move has just been played and resolved as a win
C3_Witness ==
  /\ lastOp.op = "do_move"
  /\ lastOp.esc
  /\ lastOp.move \in escape_from(snap, 0)
  /\ game.is_escape
  /\ game.winner = snap.nowTurn

BucketZero(g) == \E k \in 0 .. 3 : g.piece_nums[k] = 0

\* C4 as stated: whenever a bucket is zero, is_over returns true and reports
\* USER when USER's red or ENEMY's blue bucket is zero, ENEMY when USER's
\* blue or ENEMY's red bucket is zero.
C4_WinnerOnElimination ==
  (lastOp.op = "is_over" /\ BucketZero(game)) =>
    /\ lastOp.ret
    /\ (game.piece_nums[0] = 0 \/ game.piece_nums[3] = 0) => game.winner = USER
    /\ (game.piece_nums[1] = 0 \/ game.piece_nums[2] = 0) => game.winner = ENEMY

\* C4 amended: whenever a bucket is zero, the ply count is below the 200-ply
\* cap and no winner is recorded yet, is_over returns true and reports USER
\* when USER's red or ENEMY's blue bucket is zero, and ENEMY otherwise.
C4_WinnerOnEliminationBelowCap ==
  (lastOp.op = "is_over" /\ BucketZero(game)
     /\ game.n_plies < PLY_CAP /\ lastOp.w = NO_WINNER) =>
    /\ lastOp.ret
    /\ game.winner = IF game.piece_nums[0] = 0 \/ game.piece_nums[3] = 0 THEN USER ELSE ENEMY

\* is_over called right after the capture that emptied USER's blue bucket
C4_Witness ==
  /\ lastOp.op = "is_over"
  /\ game.piece_nums[1] = 0
  /\ snap.piece_nums[1] = 1
  /\ game.n_plies < PLY_CAP
  /\ lastOp.w = NO_WINNER
  /\ game.winner = ENEMY

\* C5: after is_over the winner field is the draw sentinel exactly when the
\* ply count has reached the cap, and the draw sentinel is never held below
\* the cap, also after undo from a capped state.
C5_DrawSentinel ==
  /\ (lastOp.op = "is_over" /\ game.fatal = "")
       => (game.winner = DRAW <=> game.n_plies >= PLY_CAP)
  /\ (game.winner = DRAW => game.n_plies >= PLY_CAP)

\* the draw was reported at the cap, the move was undone, is_over called again
C5_Witness ==
  /\ drawSeen
  /\ lastOp.op = "is_over"
  /\ game.n_plies = PLY_CAP - 1
  /\ game.winner # DRAW

(***************************************************************************)
(* Properties of findBestMove                                              *)
(***************************************************************************)
\* snap is the caller's game at the call
Returned(e) == pc = "done" /\ engine = e

\* C6: for a non-terminal true state, with either side to move and
\* simulations >= 1, the move ISMCTS::findBestMove returns is a member of
\* gen_all_move of the true state, whatever the determinizations assigned.
C6_ISMCTSResultLegal ==
  (Returned("ISMCTS") /\ simulations >= 1 /\ ~is_over(snap))
    => ret \in Range(gen_all_move(snap))

\* C7: for a non-terminal root state with at least one legal move and
\* simulations >= 1, MCTS::findBestMove returns a member of gen_all_move of
\* the root state, never the sentinel -1.
C7_MCTSResultLegal ==
  (Returned("MCTS") /\ simulations >= 1 /\ ~is_over(snap) /\ gen_all_move(snap) # << >>)
    => ret \in Range(gen_all_move(snap))

\* C8: with simulations >= 1, ISMCTS::findBestMove returns -1 if and only if
\* the true state is terminal or the side to move has no legal move at the
\* call; in every other case it returns the move of a child of the root.
C8_ISMCTSSentinel ==
  (Returned("ISMCTS") /\ simulations >= 1)
    => /\ (ret = -1) <=> (is_over(snap) \/ gen_all_move(snap) = << >>)
       /\ ret # -1 => \E k \in 1 .. Len(tree[ROOT].children) :
                        tree[tree[ROOT].children[k]].move = ret

\* C8 case: the search was called on a finished game that records no winner
\* yet, and it returned the sentinel
C8_Witness ==
  /\ Returned("ISMCTS") /\ simulations >= 1
  /\ is_over(snap) /\ snap.winner = NO_WINNER
  /\ ret = -1 /\ tree[ROOT].visits = simulations

\* C9: a call of findBestMove of either engine, on any game state including
\* a terminal one, leaves every field of the caller's game unchanged.
C9_SearchOnClones ==
  pc = "done" => SameFields(game, snap)

\* the pieces of a side and their two concrete types
PiecesOf(side) == IF side = USER THEN 0 .. (PIECES - 1) ELSE PIECES .. (2 * PIECES - 1)

\* every piece of the side that is unrevealed in g has a concrete type in d,
\* and the types assigned add up with the revealed ones to four of each
CountConsistent(g, d, side) ==
  LET unrev == {p \in PiecesOf(side) : ~g.revealed[p]}
      shown(c) == Cardinality({p \in PiecesOf(side) : g.revealed[p] /\ Abs(g.color[p]) = c})
      given(c) == Cardinality({p \in unrev : Abs(d.color[p]) = c})
  IN /\ \A p \in unrev : Abs(d.color[p]) \in {RED, BLUE}
     /\ given(RED) = 4 - shown(RED)
     /\ given(BLUE) = 4 - shown(BLUE)

\* C10: in every determinized state, of the uniform and of the weighted
\* phase, every unrevealed opponent piece has a concrete type (red or blue,
\* never unknown), and the number assigned red is 4 minus the number of
\* revealed red opponent pieces, likewise for blue.  It is stated for the
\* pieces the determinization assigns (those of ENEMY) and for the pieces of
\* the opponent of the side to move at the root.
C10_CountConsistent ==
  (engine = "ISMCTS" /\ pc \in {"select", "expand", "simulate"})
    => /\ CountConsistent(game, det, ENEMY)
       /\ CountConsistent(game, det, Toggle(root_player))

\* C10 case: the second iteration of a budget of two or more is in the
\* weighted phase with statistics recorded by a uniform first iteration, on
\* a game whose hidden pieces are unknown, one of which is assigned red
C10_Witness ==
  /\ engine = "ISMCTS" /\ pc = "select"
  /\ simulations >= 2 /\ iter >= 1 /\ use_stats(iter, simulations)
  /\ ~use_stats(0, simulations)
  /\ arrangement_stats # << >>
  /\ \E p \in PiecesOf(ENEMY) :
       ~game.revealed[p] /\ game.color[p] = -UNKNOWN /\ det.color[p] = -RED

\* the determinized state as getDeterminizedState returned it: selection has
\* not yet played a move on it
FreshDeterminization == engine = "ISMCTS" /\ pc = "select" /\ currentNode = ROOT

\* C11: relative to the true state, a determinized state differs only in the
\* types of unrevealed pieces of the opponent of the side to move at the
\* root; the searching side's own types, the revealed pieces, positions,
\* counts, mover and ply count are the same, for a root with USER to move
\* and for a root with ENEMY to move.
C11_OnlyHiddenOpponentTypes ==
  FreshDeterminization
    => /\ det.board = game.board
       /\ det.piece_board = game.piece_board
       /\ det.pos = game.pos
       /\ det.piece_nums = game.piece_nums
       /\ det.revealed = game.revealed
       /\ det.nowTurn = game.nowTurn
       /\ det.winner = game.winner
       /\ det.is_escape = game.is_escape
       /\ det.n_plies = game.n_plies
       /\ \A p \in PieceIds :
            det.color[p] # game.color[p]
              => p \in PiecesOf(Toggle(root_player)) /\ ~game.revealed[p]

(***************************************************************************)
(* Error paths of undo and do_move                                         *)
(***************************************************************************)
\* the last call was undo, directly after a do_move that was an escape win
UndoAfterEscape == lastOp.op = "undo" /\ lastOp.rt /\ lastOp.esc

\* C12 (as stated): undo() called when the last move was an escape win
\* fails, i.e. reports an error, instead of reverting the move.
C12_UndoAfterEscapeFails == UndoAfterEscape => game.fatal # ""

\* C12 (amended): undo() called when the last move was an escape win does
\* not fail: it clears the escape flag and the winner, and gives back the
\* mover, the ply count and the untouched board of the state the escape
\* move was applied to.
C12_UndoAfterEscapeReverts ==
  UndoAfterEscape
    => /\ game.fatal = ""
       /\ ~game.is_escape
       /\ game.winner = NO_WINNER
       /\ game.nowTurn = snap.nowTurn
       /\ game.n_plies = snap.n_plies
       /\ game.board = snap.board
       /\ game.piece_board = snap.piece_board
       /\ game.pos = snap.pos
       /\ game.color = snap.color
       /\ game.revealed = snap.revealed
       /\ game.piece_nums = snap.piece_nums

C12_Witness == UndoAfterEscape /\ snap.winner = NO_WINNER /\ ~snap.is_escape

\* C13: undo() at ply count 0 ends in the fatal "no history" error: no
\* history entry is read, and no board, position, count or mover field is
\* changed.
C13_UndoEmptyHistory ==
  [][(Undo /\ game.n_plies = 0)
       => /\ game'.fatal = "no history"
          /\ game'.board = game.board
          /\ game'.piece_board = game.piece_board
          /\ game'.pos = game.pos
          /\ game'.color = game.color
          /\ game'.revealed = game.revealed
          /\ game'.piece_nums = game.piece_nums
          /\ game'.nowTurn = game.nowTurn
          /\ game'.n_plies = 0
          /\ game'.is_escape = game.is_escape
          /\ game'.history = game.history]_vars

C13_Witness == lastOp.op = "undo" /\ game.fatal = "no history" /\ game.n_plies = 0

\* C14: do_move never writes the history at an index >= MAX_PLIES: whenever
\* the ply count has reached the cap, do_move ends in the fatal capacity
\* error instead of applying the move.
C14_CapacityError ==
  (lastOp.op = "do_move" /\ snap.n_plies >= MAX_PLIES)
    => /\ game.fatal = "cannot do anymore moves"
       /\ game.n_plies = snap.n_plies
       /\ game.winner = snap.winner
       /\ game.board = snap.board
       /\ game.history = snap.history

\* C15: after set_board(snapshot) the whole state is a function of the
\* snapshot alone: it is the state an engine without any earlier history
\* gets from the same snapshot.
C15_SetBoardFromSnapshotAlone ==
  lastOp.op = "set_board"
    => \E position \in ServerPositions :
         /\ game.board = set_board(zero_gst, position).board
         /\ game.piece_board = set_board(zero_gst, position).piece_board
         /\ game.pos = set_board(zero_gst, position).pos
         /\ game.color = set_board(zero_gst, position).color
         /\ game.revealed = set_board(zero_gst, position).revealed
         /\ game.piece_nums = set_board(zero_gst, position).piece_nums
         /\ game.nowTurn = set_board(zero_gst, position).nowTurn
         /\ game.winner = set_board(zero_gst, position).winner
         /\ game.is_escape = set_board(zero_gst, position).is_escape
         /\ game.n_plies = set_board(zero_gst, position).n_plies

\* C16: when findBestMove returns the sentinel -1, MyAI::Generate_move does
\* not apply any move: do_move is never called with the sentinel and the
\* game is left as it was.
C16_SentinelNotApplied ==
  (pc = "applied" /\ ret = -1) => (lastOp.op # "do_move" /\ game = snap)

\* C18: in every state reachable from init_board through do_move and undo
\* of legal moves, each of the four piece_nums counters lies in [0, 4].
C18_CountsInRange ==
  game.fatal = "" => \A k \in 0 .. 3 : game.piece_nums[k] \in 0 .. 4

\* C19: board, piece_board and pos agree: a piece is captured (pos -1) or
\* piece_board names it on its cell; piece_board[c] = p implies pos[p] = c;
\* board[c] is 0 exactly where piece_board[c] is -1; and the sign of
\* board[c] is that of the owner of the piece on c.
C19_BoardAgreement ==
  game.fatal = ""
    => /\ \A p \in PieceIds :
            \/ game.pos[p] = -1
            \/ game.pos[p] \in Cells /\ game.piece_board[game.pos[p]] = p
       /\ \A c \in Cells :
            /\ game.piece_board[c] \in PieceIds => game.pos[game.piece_board[c]] = c
            /\ game.board[c] = 0 <=> game.piece_board[c] = -1
            /\ game.board[c] > 0 <=> game.piece_board[c] \in 0 .. PIECES - 1
            /\ game.board[c] < 0 <=> game.piece_board[c] \in PIECES .. 2 * PIECES - 1

\* findBestMove has returned from a root with children
ReturnedFromChildren == pc = "done" /\ tree # << >> /\ tree[ROOT].children # << >>

\* C20: when the root has children, findBestMove of either engine returns
\* the move of the first root child, in creation order, whose visit count
\* is maximal among all root children.
C20_RobustChild ==
  ReturnedFromChildren
    => \E k \in 1 .. Len(tree[ROOT].children) :
         /\ ret = tree[tree[ROOT].children[k]].move
         /\ \A j \in 1 .. Len(tree[ROOT].children) :
              tree[tree[ROOT].children[j]].visits <= tree[tree[ROOT].children[k]].visits
         /\ \A j \in 1 .. (k - 1) :
              tree[tree[ROOT].children[j]].visits < tree[tree[ROOT].children[k]].visits

\* two root children share the largest visit count
C20_Witness ==
  /\ ReturnedFromChildren
  /\ \E j, k \in 1 .. Len(tree[ROOT].children) :
       /\ j < k
       /\ tree[tree[ROOT].children[j]].visits = tree[tree[ROOT].children[k]].visits
       /\ tree[tree[ROOT].children[j]].move = ret

(***************************************************************************)
(* Properties of the evaluator                                             *)
(***************************************************************************)
\* the entries compute_board_weight summed for a shape
SummedOf(offset) == {k \in 1 .. Len(cbw.summed) : cbw.summed[k].offset = offset}

\* C17: is_valid_pattern holds for exactly 61 (base cell, shape) instances,
\* 18 horizontal, 18 vertical and 25 square; the four cells of each lie on
\* the board, its location code lies within the trans table, and init_data
\* gives the 61 codes the 61 distinct tuple ids 1..61; compute_board_weight
\* sums exactly these 61 instances and divides by 61.
C17_PatternSet ==
  /\ (answer.asked /\ answer.valid)
       => /\ \A k \in 1 .. 4 : query.base_pos + query.offset[k] \in Cells
          /\ answer.loc \in 0 .. POS_NUM
          /\ answer.id \in 1 .. 61
  /\ cbw.done
       => /\ Len(cbw.summed) = 61
          /\ Cardinality(SummedOf(offset_1x4)) = 18
          /\ Cardinality(SummedOf(offset_4x1)) = 18
          /\ Cardinality(SummedOf(offset_2x2)) = 25
          /\ {cbw.summed[k].id : k \in 1 .. Len(cbw.summed)} = 1 .. 61
          /\ cbw.value = INIT_WIN_RATE_MILLI
  /\ (cbw.done /\ answer.asked)
       => (answer.valid
             <=> \E k \in 1 .. Len(cbw.summed) :
                   /\ cbw.summed[k].base_pos = query.base_pos
                   /\ cbw.summed[k].offset = query.offset
                   /\ cbw.summed[k].id = answer.id)

\* the pattern with the largest location code has been looked up, and the
\* board weight computed
C17_Witness ==
  /\ cbw.done /\ answer.asked /\ answer.valid
  /\ answer.loc = POS_NUM /\ Len(cbw.summed) = TUPLE_NUM

(***************************************************************************)
(* Properties of backpropagation and of the rollout value                  *)
(***************************************************************************)
\* the nodes from n up to the root, n first
RECURSIVE PathToRoot(_, _)
PathToRoot(t, n) == IF n = NULL THEN << >> ELSE <<n>> \o PathToRoot(t, t[n].parent)

\* the number of edges between n and the root
Depth(t, n) == Len(PathToRoot(t, n)) - 1

\* the same nodes with the same moves, links and availability counts
SameShape(t, u) ==
  /\ Len(t) = Len(u)
  /\ \A n \in 1 .. Len(t) :
       /\ t[n].move = u[n].move /\ t[n].parent = u[n].parent
       /\ t[n].children = u[n].children /\ t[n].avail_cnt = u[n].avail_cnt

\* C21: ISMCTS backpropagation is unflipped: the rollout value r is added to
\* wins, and 1 to visits, of every node on the path from the simulated node
\* to the root inclusive, with the same sign at every depth; no node off the
\* path changes.
C21_Unflipped ==
  [][(engine = "ISMCTS" /\ pc = "simulate") =>
       /\ SameShape(tree, tree')
       /\ \A n \in 1 .. Len(tree) :
            LET on == n \in Range(PathToRoot(tree, currentNode))
            IN /\ tree'[n].visits = tree[n].visits + (IF on THEN 1 ELSE 0)
               /\ tree'[n].wins = tree[n].wins + (IF on THEN result' ELSE 0)]_vars

\* a rollout has just been backed up from a node two levels below the root,
\* with nodes off its path in the tree
C21_Witness ==
  /\ engine = "ISMCTS" /\ iter > 0 /\ pc \in {"determinize", "best"}
  /\ Depth(tree, currentNode) = 2
  /\ tree[currentNode].visits = 1 /\ tree[currentNode].wins = result
  /\ result \in {1, -1}
  /\ Len(tree) > 3

\* (-1)^k
Sign(k) == IF k % 2 = 0 THEN 1 ELSE -1

\* C22: MCTS backpropagation alternates the sign: from a simulated node at
\* depth k with rollout value r it adds 1 to visits of every node on the path
\* to the root and r * (-1)^(k - j) to wins of the path node at depth j; no
\* node off the path changes.
C22_Alternating ==
  [][(engine = "MCTS" /\ pc = "simulate") =>
       /\ SameShape(tree, tree')
       /\ \A n \in 1 .. Len(tree) :
            LET on == n \in Range(PathToRoot(tree, nodeToSimulate'))
                k == Depth(tree, nodeToSimulate')
                j == Depth(tree, n)
            IN /\ tree'[n].visits = tree[n].visits + (IF on THEN 1 ELSE 0)
               /\ tree'[n].wins =
                    tree[n].wins + (IF on THEN result' * Sign(k - j) ELSE 0)]_vars

\* a rollout has just been backed up from a node two levels below the root:
\* the node holds r, its parent, visited for the first time, holds -r
C22_Witness ==
  /\ engine = "MCTS" /\ iter > 0 /\ pc \in {"select", "best"}
  /\ Depth(tree, nodeToSimulate) = 2
  /\ tree[nodeToSimulate].visits = 1 /\ tree[nodeToSimulate].wins = result
  /\ tree[tree[nodeToSimulate].parent].visits = 1
  /\ tree[tree[nodeToSimulate].parent].wins = -result
  /\ result \in {1, -1}

(***************************************************************************)
(* Properties of ISMCTS selection                                          *)
(***************************************************************************)
\* the legal moves of the pass of the selection loop that is about to run
SelMoves == gen_all_move(is_over_state(det))

\* the children of currentNode that are compatible with the determinization
SelCand ==
  SelectSeq(tree[currentNode].children, LAMBDA c : tree[c].move \in Range(SelMoves))

\* the pass that is about to run reaches "Standard UCB Selection": the state
\* is not over, every legal move has a child, and every candidate is visited
UCBComputed ==
  /\ engine = "ISMCTS" /\ pc = "select" /\ det.fatal = ""
  /\ ~is_over(det) /\ SelMoves # << >>
  /\ \A k \in 1 .. Len(SelMoves) : has_child(tree, currentNode, SelMoves[k])
  /\ SelCand # << >>
  /\ \A k \in 1 .. Len(SelCand) : tree[SelCand[k]].visits > 0

\* the availability counts calculateUCB reads: the pass has incremented them
AvailAtUCB == bump_avail(tree[currentNode].avail_cnt, SelMoves)

\* the move is legal in the position whatever colours a determinization gives
\* to the pieces that are hidden in the caller's game
LegalInEvery(state, m) ==
  LET u == unrevealed_pieces(game)
  IN \A a \in [1 .. Len(u) -> {-RED, -BLUE}] :
       m \in Range(gen_all_move(apply_arrangement(state, u, a)))

\* C23: availability-UCB degeneracy: when selection computes the UCB of a
\* child c of a node P (the root or an inner node) whose move was legal in
\* every determinization in which P was visited, P.avail_cnt[c.move] equals
\* P.visits.
C23_AvailEqualsVisits ==
  UCBComputed =>
    \A k \in 1 .. Len(SelCand) :
      LegalInEvery(is_over_state(det), tree[SelCand[k]].move)
        => AvailAtUCB[tree[SelCand[k]].move] = tree[currentNode].visits

(***************************************************************************)
(* Properties of the rollout value                                         *)
(***************************************************************************)
\* C24: ISMCTS::simulation returns +1 only when the side to move at the root
\* of findBestMove has won the rollout, -1 only when the other side has won
\* it, and 0 whenever the rollout ends without a winner (horizon exhausted
\* or game drawn by the ply cap).
C24_IsmctsReward ==
  (engine = "ISMCTS" /\ iter > 0) =>
    /\ result = 1 => simWinner = root_player
    /\ result = -1 => simWinner = Toggle(root_player)
    /\ simWinner \notin {USER, ENEMY} => result = 0

\* C25: MCTS::simulation returns +1 only when ENEMY has won the rollout, -1
\* only when USER has won it, and 0 whenever the rollout ends without a
\* winner (depth cap reached or game drawn by the ply cap).
C25_MctsReward ==
  (engine = "MCTS" /\ iter > 0) =>
    /\ result = 1 => simWinner = ENEMY
    /\ result = -1 => simWinner = USER
    /\ simWinner \notin {USER, ENEMY} => result = 0

(***************************************************************************)
(* Properties of the MCTS tree                                             *)
(***************************************************************************)
\* the position reached from g by the moves on the path from the root to n,
\* in order; "illegal" when one of them is not a move of its position
RECURSIVE PathState(_, _, _)
PathState(g, t, n) ==
  IF t[n].parent = NULL THEN g
  ELSE LET ps == PathState(g, t, t[n].parent)
       IN IF ps.fatal # "" THEN ps
          ELSE IF t[n].move \in Range(gen_all_move(ps)) THEN do_move(ps, t[n].move)
          ELSE [ps EXCEPT !.fatal = "illegal"]

\* C26: MCTS tree consistency: the move of every node, at any depth, is a
\* legal move for the side to move in the position reached from the root
\* state by the moves on the path from the root to the node's parent, and a
\* node has children only if that position of its own is not terminal.
C26_TreeConsistent ==
  engine = "MCTS" =>
    \A n \in 2 .. Len(tree) :
      LET ps == PathState(game, tree, tree[n].parent)
      IN /\ ps.fatal = ""
         /\ tree[n].move \in Range(gen_all_move(ps))
         /\ ~is_over(ps)

\* do_move of every move on the path from the root to n, in order
RECURSIVE PathApplied(_, _, _)
PathApplied(g, t, n) ==
  IF t[n].parent = NULL THEN g
  ELSE LET ps == PathApplied(g, t, t[n].parent)
       IN IF ps.fatal # "" THEN ps ELSE do_move(ps, t[n].move)

\* C27: in every MCTS iteration the rollout starts from the position obtained
\* by applying to the root state, in order, all moves on the path from the
\* root to the node chosen for simulation, not only that node's own move.
C27_RolloutFromPath ==
  (engine = "MCTS" /\ iter > 0 /\ simulationState.fatal = "") =>
    LET ps == PathApplied(game, tree, nodeToSimulate)
    IN ps.fatal = "" => SameFields(simulationState, ps)

\* the move is an ordinary step onto a cell that holds a RED piece of the
\* other side
RedCapture(g, m) ==
  /\ ~is_escape_win(g, m)
  /\ mcts_dst(g, m) \in Cells
  /\ LET target_piece == g.piece_board[mcts_dst(g, m)]
     IN /\ target_piece # -1
        /\ (PieceOf(m) < PIECES) # (target_piece < PIECES)
        /\ Abs(g.color[target_piece]) = RED

\* C28: MCTS expansion pruning: the children created by expansion carry the
\* legal moves of the expanded position except those whose actual
\* destination cell holds a RED piece of the other side; every non-capturing
\* move, every capture of a BLUE piece and every escape move gets a child.
C28_ExpansionPruning ==
  (engine = "MCTS" /\ pc = "simulate" /\ iter = 0 /\ ~is_over(game)) =>
    {tree[c].move : c \in Range(tree[ROOT].children)}
      = {m \in Range(gen_all_move(game)) : ~RedCapture(game, m)}

(***************************************************************************)
(* Properties of the moves ISMCTS plays and of the nodes it adds           *)
(***************************************************************************)
\* the rules of the game: a piece of the side to move that is on the board
\* either leaves through one of its exits, or steps to a neighbouring cell
\* that holds no piece of its own side
LegalMove(g, m) ==
  /\ PieceOf(m) \in PieceIds
  /\ OwnPiece(g, PieceOf(m))
  /\ g.pos[PieceOf(m)] \in Cells
  /\ \/ ExitMove(g, m)
     \/ /\ StaysOnBoard(g, m)
        /\ ~OwnCell(g, g.pos[PieceOf(m)] + dir_val[DirOf(m)])

AllMoves == {p * 16 + d : p \in PieceIds, d \in 0 .. 3}

\* after is the state before with the legal move m played on it
PlayedLegal(before, m, after) ==
  /\ before.fatal = "" /\ after.fatal = ""
  /\ LegalMove(before, m)
  /\ after = do_move(before, m)

\* C29: ISMCTS applies only legal moves to the determinized state: every
\* move applied during the selection descent, at expansion and in the
\* rollout is legal in the state it is applied to; selection never descends
\* into a child whose move is illegal in the current determinization.
C29_OnlyLegalMoves ==
  [][engine = "ISMCTS" =>
       /\ (pc = "select" /\ currentNode' # currentNode) =>
            PlayedLegal(is_over_state(det), tree[currentNode'].move, det')
       /\ (pc = "expand" /\ Len(tree') > Len(tree)) =>
            PlayedLegal(is_over_state(det), tree'[Len(tree')].move, det')
       /\ (pc \in {"select", "expand"} /\ currentNode' = currentNode
             /\ Len(tree') = Len(tree)) =>
            det' = is_over_state(det)
       /\ (pc = "simulate" /\ step' = step + 1) =>
            \E st \in {policy_state(rollout_state, policy')} :
              \E m \in {x \in AllMoves : LegalMove(rollout_state, x)} :
                PlayedLegal(st, m, simState')
       /\ (pc = "simulate" /\ step' # step + 1) => det' = det]_vars

\* selection has just descended from the root into a visited child while
\* another child of the root has a move that is illegal with the colours of
\* the current determinization
C29_Witness ==
  /\ engine = "ISMCTS" /\ pc = "select"
  /\ currentNode # ROOT /\ tree[currentNode].parent = ROOT
  /\ det.fatal = ""
  /\ \E k \in 1 .. Len(tree[ROOT].children) :
       ~LegalMove([game EXCEPT !.color = det.color], tree[tree[ROOT].children[k]].move)

\* no two children of a node carry the same move
SiblingsDistinct(t) ==
  \A n \in 1 .. Len(t) :
    \A j, k \in 1 .. Len(t[n].children) :
      j # k => t[t[n].children[j]].move # t[t[n].children[k]].move

\* the head of the loop of findBestMove, or after it
AtLoopHead(p) == p \in {"determinize", "best", "done", "applied"}

\* C30: ISMCTS single-child expansion: each iteration adds at most one node
\* to the tree; the node's move is legal in the current determinization and
\* is not the move of an existing sibling, so the moves of the children of a
\* node are pairwise distinct; after i iterations the tree has at most i + 1
\* nodes (the root, made before the first iteration, and one per iteration).
C30_SingleChildExpansion ==
  [][engine = "ISMCTS" =>
       /\ Len(tree') <= Len(tree) + 1
       /\ (pc # "call" /\ Len(tree') > Len(tree)) =>
            LET new == tree'[Len(tree')]
            IN /\ pc = "expand" /\ pc' = "simulate"
               /\ new.parent = currentNode
               /\ new.children = << >> /\ new.visits = 0
               /\ LegalMove(is_over_state(det), new.move)
               /\ \A k \in 1 .. Len(tree[currentNode].children) :
                    tree[tree[currentNode].children[k]].move # new.move
               /\ tree'[currentNode].children =
                    Append(tree[currentNode].children, Len(tree'))
       /\ SiblingsDistinct(tree')
       /\ AtLoopHead(pc') => Len(tree') <= iter' + 1]_vars

\* four iterations have added four nodes, three of them children of the root
C30_Witness ==
  /\ engine = "ISMCTS" /\ AtLoopHead(pc)
  /\ iter = 4 /\ Len(tree) = 5
  /\ Len(tree[ROOT].children) = 3
  /\ SiblingsDistinct(tree)

(***************************************************************************)
(* Properties of the arrangement table                                     *)
(***************************************************************************)
\* the opponent pieces that are unrevealed in the caller's game
Hidden == {p \in PIECES .. (2 * PIECES - 1) : ~game.revealed[p]}

\* the i-th of them in ascending piece id
HiddenAt(i) == CHOOSE p \in Hidden : Cardinality({q \in Hidden : q < p}) = i - 1

\* the types state d gives them, in ascending piece id
SampledTypes(d) == [i \in 1 .. Cardinality(Hidden) |-> d.color[HiddenAt(i)]]

\* the key whose total the step has raised
RecordedKeys ==
  {k \in DOMAIN arrangement_stats' :
     k \notin DOMAIN arrangement_stats \/ arrangement_stats'[k] # arrangement_stats[k]}

\* the type assignments of the current call that the weighted phase lists
ListedArrangements ==
  LET r == 4 - redCount(game)
      b == 4 - blueCount(game)
      masks == weighted_arrangements(r, b)
  IN {mask_arrangement(masks[k], r + b) : k \in 1 .. Len(masks)}

\* C31: arrangement key consistency: the key under which findBestMove
\* records the result of an iteration is the key under which the weighted
\* determinization looks up the same type assignment, and no other listed
\* assignment has that key; its i-th letter is the sampled type of the i-th
\* unrevealed opponent piece in ascending piece id, in the shuffle phase and
\* in the weighted phase; the sampled types do not change between the
\* determinization and the recording.
C31_KeyConsistent ==
  [][engine = "ISMCTS" =>
       /\ (pc = "simulate" /\ iter' = iter + 1) =>
            /\ Cardinality(RecordedKeys) = 1
            /\ \A K \in RecordedKeys :
                 /\ Len(K) = Cardinality(Hidden)
                 /\ \A i \in 1 .. Len(K) :
                      K[i] = (IF det.color[HiddenAt(i)] = -RED THEN "R" ELSE "B")
                 /\ SampledTypes(det) \in ListedArrangements
                 /\ \A a \in ListedArrangements :
                      (key_of(a) = K) <=> (a = SampledTypes(det))
       /\ (pc \in {"select", "expand"} /\ det.fatal = "") =>
            SampledTypes(det') = SampledTypes(det)]_vars

\* a call with a shuffle phase and a weighted phase has recorded two
\* different assignments of a RED and a BLUE piece
C31_Witness ==
  /\ engine = "ISMCTS" /\ pc = "best" /\ simulations >= 3
  /\ Cardinality(Hidden) = 2
  /\ DOMAIN arrangement_stats = {<<"R", "B">>, <<"B", "R">>}

(***************************************************************************)
(* Properties of the rollout policy                                        *)
(***************************************************************************)
\* C32: greedy rollout side: in ISMCTS::simulation the move of
\* highest_weight is played only by the side that was to move at the root
\* of the search, and the moves of the other side are random legal moves,
\* when root_player is USER and when it is ENEMY.
C32_GreedyByRootPlayer ==
  [][(engine = "ISMCTS" /\ pc = "simulate" /\ step' = step + 1) =>
       /\ policy' = "greedy" => rollout_state.nowTurn = root_player
       /\ rollout_state.nowTurn # root_player => policy' = "random"]_vars

(***************************************************************************)
(* Properties of the escape win                                            *)
(***************************************************************************)
\* the last call was do_move of an escape move that was legal in snap
EscapePlayed ==
  /\ lastOp.op = "do_move" /\ snap.fatal = ""
  /\ lastOp.move \in AllMoves
  /\ OwnPiece(snap, PieceOf(lastOp.move))
  /\ ExitMove(snap, lastOp.move)

\* C33: escape win frame: do_move of a legal escape move sets winner to the
\* mover, sets the escape flag, adds one to the ply count and toggles the
\* mover; board, piece_board, pos, color, revealed, piece_nums and the
\* contents of the history stack are unchanged.
C33_EscapeFrame ==
  EscapePlayed =>
    /\ game.fatal = ""
    /\ game.winner = snap.nowTurn
    /\ game.is_escape
    /\ game.n_plies = snap.n_plies + 1
    /\ game.nowTurn = Toggle(snap.nowTurn)
    /\ game.board = snap.board
    /\ game.piece_board = snap.piece_board
    /\ game.pos = snap.pos
    /\ game.color = snap.color
    /\ game.revealed = snap.revealed
    /\ game.piece_nums = snap.piece_nums
    /\ game.history = snap.history

\* an escape move has been played after at least one ordinary move
C33_Witness ==
  /\ EscapePlayed
  /\ game.is_escape /\ game.winner = snap.nowTurn
  /\ Len(game.history) > 0 /\ game.history = snap.history

(***************************************************************************)
(* Properties of the greedy policy                                         *)
(***************************************************************************)
\* the pieces of the side that is not to move that are on the board
OtherSide(g) ==
  {p \in PieceIds : ~OwnPiece(g, p) /\ g.pos[p] \in Cells /\ g.piece_board[g.pos[p]] = p}

\* g with the types ty of the pieces of the other side, in color and on the
\* board; nothing else differs, the counts of piece_nums included
Retyped(g, ty) ==
  LET sign == IF g.nowTurn = USER THEN -1 ELSE 1
  IN [g EXCEPT
        !.color = [p \in PieceIds |-> IF p \in DOMAIN ty THEN sign * ty[p] ELSE @[p]],
        !.board = [c \in Cells |->
                     IF g.piece_board[c] \in DOMAIN ty /\ g.pos[g.piece_board[c]] = c
                       THEN sign * ty[g.piece_board[c]] ELSE @[c]]]

Twins(g) == {Retyped(g, ty) : ty \in [OtherSide(g) -> {RED, BLUE}]}

\* highest_weight has just returned; snap is the state it was called on
GreedyReturned == lastOp.op = "highest_weight" /\ snap.fatal = ""

\* the move of entry w captures a piece in state g
CaptureEntry(g, w) ==
  /\ ~ExitMove(g, w.move)
  /\ g.board[g.pos[PieceOf(w.move)] + dir_val[DirOf(w.move)]] # 0

\* C34: no oracle knowledge in the greedy policy: for two states that are
\* identical except for the types of the on-board pieces of the side that
\* is not to move, with the same counts in piece_nums, highest_weight
\* computes the same weight for every candidate move: the same branch, the
\* same table entries summed and the same bonus factors.
C34_NoOracleKnowledge ==
  GreedyReturned =>
    \A twin \in Twins(snap) : highest_weight(twin, d_trans).WEIGHT = WEIGHT

\* the weights of a state with two pieces of the other side have been
\* computed, one of them for a move that captures
C34_Witness ==
  /\ GreedyReturned
  /\ Cardinality(Twins(snap)) = 4
  /\ \E k \in 1 .. Len(WEIGHT) :
       WEIGHT[k].branch = "general" /\ CaptureEntry(snap, WEIGHT[k])

\* C35: the greedy policy restores its state: when highest_weight returns,
\* the state it was called on equals the state before the call in board,
\* piece_board, pos, color, piece_nums, revealed, nowTurn, winner, is_escape
\* and n_plies, also when an evaluated candidate captures a piece.
C35_StateRestored ==
  GreedyReturned =>
    /\ game.board = snap.board
    /\ game.piece_board = snap.piece_board
    /\ game.pos = snap.pos
    /\ game.color = snap.color
    /\ game.piece_nums = snap.piece_nums
    /\ game.revealed = snap.revealed
    /\ game.nowTurn = snap.nowTurn
    /\ game.winner = snap.winner
    /\ game.is_escape = snap.is_escape
    /\ game.n_plies = snap.n_plies

\* C36: every candidate is scored: every legal move that no position rule
\* gives the weight 1 gets the board weight of the position after it as its
\* base weight; none keeps the default 0 without being evaluated.
C36_EveryCandidateScored ==
  GreedyReturned =>
    \A k \in 1 .. Len(WEIGHT) : WEIGHT[k].branch \in {"win", "general"}

\* C39: cell indices stay on the board: for every legal move, the escape
\* moves from the corner cells included, every index with which
\* highest_weight reads board[] after the if-chain lies in 0 .. 35.
C39_IndicesOnBoard ==
  GreedyReturned =>
    \A k \in 1 .. Len(WEIGHT) :
      \A i \in 1 .. Len(WEIGHT[k].cells) : WEIGHT[k].cells[i] \in Cells

\* in state g every occupied cell holds the colour of the piece on it
CellCodes(g) ==
  \A c \in Cells :
    (g.piece_board[c] \in PieceIds /\ g.pos[g.piece_board[c]] = c) =>
      g.board[c] = g.color[g.piece_board[c]]

\* C40: cell code equals piece type: in the caller's game, in the
\* determinized clone of an iteration and in the rollout state, also after
\* highest_weight has run on it, every occupied cell c has
\* board[c] = color[piece_board[c]].
C40_CellCodeIsPieceType ==
  /\ game.fatal = "" => CellCodes(game)
  /\ det.fatal = "" => CellCodes(det)
  /\ simState.fatal = "" => CellCodes(simState)

(***************************************************************************)
(* Properties of the iteration count                                       *)
(***************************************************************************)
\* findBestMove is inside its loop, at its end, or has returned
InCall == pc \in {"determinize", "select", "expand", "simulate", "best", "done", "applied"}

\* C37: iteration accounting: in a findBestMove call of either engine the
\* visit count of the root equals the number of completed iterations; it
\* starts from 0 at every call, also when the engine has the tree of an
\* earlier call, and on return it equals the simulation count.
C37_IterationAccounting ==
  /\ InCall => tree[ROOT].visits = iter
  /\ pc \in {"best", "done", "applied"} => tree[ROOT].visits = simulations

\* the loop of a second call on an engine of two simulations has ended: ret
\* still holds the move the first call has returned
C37_Witness ==
  /\ pc = "best" /\ ret # -1
  /\ simulations = 2 /\ iter = 2 /\ tree[ROOT].visits = 2

(***************************************************************************)
(* Properties of the availability counts                                   *)
(***************************************************************************)
\* the nodes of the tree other than the root
NonRoot == {c \in 1 .. Len(tree) : c # ROOT}

\* the count the parent of c keeps for the move of c; 0 when it has none
AvailOf(c) ==
  LET m == tree[tree[c].parent].avail_cnt
  IN IF tree[c].move \in DOMAIN m THEN m[tree[c].move] ELSE 0

BetweenIterations == engine = "ISMCTS" /\ pc \in {"determinize", "best", "done", "applied"}

\* C38: availability dominates visits: between the iterations of ISMCTS
\* every node c other than the root has 1 <= c.visits <= the count its
\* parent keeps for c.move; at any time the entry calculateUCB reads for a
\* node is present and at least 1.
C38_AvailDominatesVisits ==
  /\ BetweenIterations =>
       \A c \in NonRoot : 1 <= tree[c].visits /\ tree[c].visits <= AvailOf(c)
  /\ engine = "ISMCTS" => \A c \in NonRoot : AvailOf(c) >= 1

\* four iterations are done: a node below a child of the root exists, and a
\* child of the root was visited twice and was available more often
C38_Witness ==
  /\ BetweenIterations /\ iter = 4
  /\ \E c \in NonRoot : tree[c].parent # ROOT
  /\ \E c \in NonRoot : tree[c].visits = 2 /\ AvailOf(c) > 2
====
